---- MODULE Spec2Model ----
(***************************************************************************)
(* Model of the automated trading bot (AutoTradingBot), its order-book     *)
(* tracker, its P&L ledger and the venue it trades on.                     *)
(*                                                                         *)
(* Numbers: every price, size and amount is an exact rational <<n, d>>     *)
(* (d > 0, lowest terms); <<0, 0>> stands for NaN.  Floating-point         *)
(* rounding is not modelled.  Time is counted in seconds.                  *)
(***************************************************************************)
EXTENDS Integers, Sequences, FiniteSets, TLC

VARIABLES
    now,                 \* Date.now(), in seconds
    isRunning,           \* AutoTradingBot.isRunning
    enableDynamicSizing, \* AutoTradingBot.enableDynamicSizing (read from the environment)
    softwarePrices,      \* AutoTradingBot.softwarePrices {UP, DOWN, lastUpdate}
    polymarketPrices,    \* AutoTradingBot.polymarketPrices: token -> price
    orderBooks,          \* OrderBookTracker.orderBooks: token -> snapshot or NoBook
    lastTradeTime,       \* AutoTradingBot.lastTradeTime
    tradeCounter,        \* AutoTradingBot.tradeCounter
    loop,                \* the trading loop: where immediateTradingLoop/executeTrade is suspended
    trades,              \* the Trade objects ever created (by trade number)
    activeTrades,        \* AutoTradingBot.activeTrades: sequence of trade numbers
    orders,              \* the venue: state of every order id
    passes,              \* the order-monitor passes in flight
    pnl,                 \* PnLTracker {trades, runningPnL, peakPnL, maxDrawdown}
    logged,              \* the failures of orders and cancels written to the log
    lastSubmit,          \* history: time of the latest entry-order submission (-1: none)
    closeCalls,          \* history: calls of recordTradeClose made for each trade
    sent,                \* history: the order requests accepted by the venue, in order
    startup,             \* start(): its position, its balance check, the loops it started
    feeds,               \* the two streaming connections and their reconnect timers
    limiter,             \* the RateLimiter: last call time per key, and its callers
    oracle,              \* the BitcoinOracle: flag, timers, fetch cycles, history
    snapshot,            \* the OracleData returned by the latest getOracleData(), if any
    lastCheck,           \* the latest checkLiquidity() call and the LiquidityCheck it returned
    ticks,               \* the timers and the invocations in flight of immediateTradingLoop
    server               \* the OracleServer: position of start(), socket server, clients, timer

vars == <<now, isRunning, enableDynamicSizing, softwarePrices, polymarketPrices,
          orderBooks, lastTradeTime, tradeCounter, loop, trades, activeTrades,
          orders, passes, pnl, logged, lastSubmit, closeCalls, sent,
          startup, feeds, limiter, oracle, snapshot,
          lastCheck, ticks, server>>

(***************************************************************************)
(* Bounds of the model                                                     *)
(***************************************************************************)
Epoch == 20          \* Date.now() in the first state explored
LoopHorizon == 6     \* seconds explored by SpecLoop
ScanHorizon == 1     \* seconds explored by SpecScan
MaxTrades == 2       \* trades opened
MaxPasses == 2       \* order-monitor passes in flight together

(***************************************************************************)
(* Exact rational arithmetic                                               *)
(***************************************************************************)
Abs(x) == IF x < 0 THEN -x ELSE x

RECURSIVE GCD(_, _)
GCD(a, b) == IF b = 0 THEN a ELSE GCD(b, a % b)

NaN == <<0, 0>>
IsNaN(a) == a[2] = 0

Q(n, d) ==
    IF d = 0 THEN NaN
    ELSE LET g == GCD(Abs(n), Abs(d))
             s == IF d < 0 THEN -1 ELSE 1
         IN <<(s * n) \div g, (s * d) \div g>>

QInt(n) == <<n, 1>>
Milli(n) == Q(n, 1000)
QZero == <<0, 1>>
QOne == <<1, 1>>

QAdd(a, b) == IF IsNaN(a) \/ IsNaN(b) THEN NaN ELSE Q(a[1] * b[2] + b[1] * a[2], a[2] * b[2])
QSub(a, b) == IF IsNaN(a) \/ IsNaN(b) THEN NaN ELSE Q(a[1] * b[2] - b[1] * a[2], a[2] * b[2])
QMul(a, b) == IF IsNaN(a) \/ IsNaN(b) THEN NaN ELSE Q(a[1] * b[1], a[2] * b[2])
\* 0/0 is NaN; x/0 with x # 0 (Infinity) does not occur in the code modelled
QDiv(a, b) == IF IsNaN(a) \/ IsNaN(b) THEN NaN ELSE Q(a[1] * b[2], a[2] * b[1])
QAbs(a) == <<Abs(a[1]), a[2]>>

\* comparisons with NaN are false, as in the source language
QLt(a, b) == ~IsNaN(a) /\ ~IsNaN(b) /\ a[1] * b[2] < b[1] * a[2]
QLe(a, b) == ~IsNaN(a) /\ ~IsNaN(b) /\ a[1] * b[2] <= b[1] * a[2]
QGt(a, b) == QLt(b, a)
QGe(a, b) == QLe(b, a)

\* Math.min / Math.max: NaN if an argument is NaN
QMin(a, b) == IF IsNaN(a) \/ IsNaN(b) THEN NaN ELSE IF QLe(a, b) THEN a ELSE b
QMax(a, b) == IF IsNaN(a) \/ IsNaN(b) THEN NaN ELSE IF QGe(a, b) THEN a ELSE b

(***************************************************************************)
(* Configuration (constructor of AutoTradingBot).  Money parameters have   *)
(* their default values, and so has PRICE_STALE_MS (10 s); the cooldown    *)
(* and the maximum trade age are configured to a few seconds               *)
(* (TRADE_COOLDOWN=6, MAX_TRADE_AGE=2).                                    *)
(***************************************************************************)
maxSlippage == Q(1, 100)
minLiquidity == QInt(2)
maxSpread == QInt(3)
priceStaleMs == 10
priceThreshold == Milli(15)
stopLossAmount == Milli(5)
takeProfitAmount == Milli(10)
tradeCooldown == 6
tradeAmount == QInt(5)
minimumBalance == QInt(500)
maxTradeAge == 2

Tokens == {"UP", "DOWN"}

(***************************************************************************)
(* OrderBookTracker                                                        *)
(***************************************************************************)
NoBook == [tokenId |-> "none"]

Level(p, s) == [price |-> Milli(p), size |-> QInt(s)]

\* a snapshot whose mid is the mean of the best prices also when a side is empty
updateOrderBookAlwaysMid(tokenId, bids, asks, t) ==
    LET bestBid == IF Len(bids) > 0 THEN bids[1].price ELSE QZero
        bestAsk == IF Len(asks) > 0 THEN asks[1].price ELSE QZero
        midPrice == QDiv(QAdd(bestBid, bestAsk), QInt(2))
        spread == QSub(bestAsk, bestBid)
        spreadPercent == IF QGt(midPrice, QZero)
                         THEN QMul(QDiv(spread, midPrice), QInt(100)) ELSE QZero
    IN [tokenId |-> tokenId, bids |-> bids, asks |-> asks, lastUpdate |-> t,
        midPrice |-> midPrice, spread |-> spread, spreadPercent |-> spreadPercent]

\* updateOrderBook(tokenId, bids, asks): the snapshot stored for tokenId
updateOrderBook(tokenId, bids, asks, t) ==
    LET bestBid == IF Len(bids) > 0 THEN bids[1].price ELSE QZero
        bestAsk == IF Len(asks) > 0 THEN asks[1].price ELSE QZero
        midPrice == IF QGt(bestBid, QZero) /\ QGt(bestAsk, QZero)
                    THEN QDiv(QAdd(bestBid, bestAsk), QInt(2)) ELSE QZero
        spread == QSub(bestAsk, bestBid)
        spreadPercent == IF QGt(midPrice, QZero)
                         THEN QMul(QDiv(spread, midPrice), QInt(100)) ELSE QZero
    IN [tokenId |-> tokenId, bids |-> bids, asks |-> asks, lastUpdate |-> t,
        midPrice |-> midPrice, spread |-> spread, spreadPercent |-> spreadPercent]

getMidPrice(books, tokenId) ==
    IF books[tokenId] = NoBook THEN QZero ELSE books[tokenId].midPrice

getSpreadPercent(books, tokenId) ==
    IF books[tokenId] = NoBook THEN QZero ELSE books[tokenId].spreadPercent

isStale(books, tokenId, t) ==
    IF books[tokenId] = NoBook THEN TRUE
    ELSE t - books[tokenId].lastUpdate > priceStaleMs

\* the walk over the levels of one side (the for loop of checkLiquidity):
\* <<totalLiquidity, weightedPriceSum, remainingAmount>> after levels 1..k
RECURSIVE walkLevels(_, _, _)
walkLevels(levels, k, amount) ==
    IF k = 0 THEN <<QZero, QZero, amount>>
    ELSE LET prev == walkLevels(levels, k - 1, amount)
             level == levels[k]
             levelValue == QMul(level.price, level.size)
             fillAmount == QMin(prev[3], levelValue)
         IN IF QGt(prev[3], QZero)
            THEN <<QAdd(prev[1], levelValue),
                   QAdd(prev[2], QMul(level.price, fillAmount)),
                   QSub(prev[3], fillAmount)>>
            ELSE <<QAdd(prev[1], levelValue), prev[2], prev[3]>>

\* a check that asks only for the requested notional to be covered
checkLiquidityCoveredOnly(books, tokenId, side, amount) ==
    LET book == books[tokenId]
        levels == IF book = NoBook THEN <<>>
                  ELSE IF side = "BUY" THEN book.asks ELSE book.bids
        w == walkLevels(levels, Len(levels), amount)
    IN [sufficient |-> levels # <<>> /\ QLe(w[3], QZero),
        availableLiquidity |-> w[1],
        requiredLiquidity |-> QMul(amount, minLiquidity),
        estimatedSlippage |-> QZero,
        effectivePrice |-> IF levels = <<>> THEN QZero ELSE levels[1].price]

\* checkLiquidity(tokenId, side, amount)
checkLiquidity(books, tokenId, side, amount) ==
    LET book == books[tokenId]
    IN IF book = NoBook
       THEN [sufficient |-> FALSE, availableLiquidity |-> QZero, requiredLiquidity |-> amount,
             estimatedSlippage |-> QOne, effectivePrice |-> QZero]
       ELSE LET levels == IF side = "BUY" THEN book.asks ELSE book.bids
            IN IF Len(levels) = 0
               THEN [sufficient |-> FALSE, availableLiquidity |-> QZero,
                     requiredLiquidity |-> amount,
                     estimatedSlippage |-> QOne, effectivePrice |-> QZero]
               ELSE LET w == walkLevels(levels, Len(levels), amount)
                        totalLiquidity == w[1]
                        weightedPriceSum == w[2]
                        remainingAmount == w[3]
                        effectivePrice ==
                            IF QGt(amount, QZero)
                            THEN QDiv(weightedPriceSum,
                                      QSub(amount, QMax(QZero, remainingAmount)))
                            ELSE levels[1].price
                        bestPrice == levels[1].price
                        estimatedSlippage ==
                            IF QGt(bestPrice, QZero)
                            THEN QDiv(QAbs(QSub(effectivePrice, bestPrice)), bestPrice)
                            ELSE QZero
                        requiredLiquidity == QMul(amount, minLiquidity)
                    IN [sufficient |-> QGe(totalLiquidity, requiredLiquidity)
                                       /\ QLe(remainingAmount, QZero),
                        availableLiquidity |-> totalLiquidity,
                        requiredLiquidity |-> requiredLiquidity,
                        estimatedSlippage |-> estimatedSlippage,
                        effectivePrice |-> effectivePrice]

(***************************************************************************)
(* Opportunity detection (checkTradeOpportunity and its helpers)           *)
(***************************************************************************)
NoOpp == [tokenType |-> "none"]

calculateConfidence(priceDiff, spread, liquidity, oracleAge) ==
    LET diffFactor == QMin(QDiv(QSub(priceDiff, priceThreshold), priceThreshold), QOne)
        spreadFactor == QMax(QSub(QOne, QDiv(spread, maxSpread)), QZero)
        liquidityFactor == QMin(QDiv(liquidity, QMul(tradeAmount, QInt(5))), QOne)
        freshnessFactor == QMax(QSub(QOne, Q(oracleAge, priceStaleMs)), QZero)
    IN QAdd(QAdd(QMul(diffFactor, Q(4, 10)), QMul(spreadFactor, Q(2, 10))),
            QAdd(QMul(liquidityFactor, Q(2, 10)), QMul(freshnessFactor, Q(2, 10))))

\* a dynamic size without its caps
calculateDynamicSizeUncapped(confidence, availableLiquidity, balance) ==
    QMul(tradeAmount, QAdd(Q(1, 2), QMul(confidence, Q(3, 2))))

calculateDynamicSize(confidence, availableLiquidity, balance) ==
    LET baseSize == tradeAmount
        confidenceMultiplier == QAdd(Q(1, 2), QMul(confidence, Q(3, 2)))
        maxByLiquidity == QDiv(availableLiquidity, QInt(3))
        maxByBalance == QMul(balance, Q(1, 10))
    IN QMin(QMin(QMul(baseSize, confidenceMultiplier), maxByLiquidity),
            QMin(maxByBalance, QMul(baseSize, QInt(2))))

\* the size whose liquidity and slippage the scan checks
gateSize == tradeAmount

\* an iteration of the scan without the spread gate
tokenQualifiesAnySpread(tokenType, t) ==
    LET softwarePrice == softwarePrices[tokenType]
        polyPrice == polymarketPrices[tokenType]
        diff == QSub(softwarePrice, polyPrice)
        liquidityCheck == checkLiquidity(orderBooks, tokenType, "BUY", tradeAmount)
    IN /\ ~isStale(orderBooks, tokenType, t)
       /\ ~(QLt(diff, priceThreshold) \/ QLe(softwarePrice, QZero) \/ QLe(polyPrice, QZero))
       /\ liquidityCheck.sufficient
       /\ ~QGt(liquidityCheck.estimatedSlippage, maxSlippage)

\* one iteration of the scan over ['UP', 'DOWN']: does the token pass every gate
tokenQualifies(tokenType, t) ==
    LET softwarePrice == softwarePrices[tokenType]
        polyPrice == polymarketPrices[tokenType]
        diff == QSub(softwarePrice, polyPrice)
        liquidityCheck == checkLiquidity(orderBooks, tokenType, "BUY", gateSize)
    IN /\ ~isStale(orderBooks, tokenType, t)
       /\ ~(QLt(diff, priceThreshold) \/ QLe(softwarePrice, QZero) \/ QLe(polyPrice, QZero))
       /\ ~QGt(getSpreadPercent(orderBooks, tokenType), maxSpread)
       /\ liquidityCheck.sufficient
       /\ ~QGt(liquidityCheck.estimatedSlippage, maxSlippage)

\* the TradeOpportunity returned for a token that passed the gates
opportunityFor(tokenType, usdc, oracleAge) ==
    LET softwarePrice == softwarePrices[tokenType]
        polyPrice == polymarketPrices[tokenType]
        diff == QSub(softwarePrice, polyPrice)
        spreadPercent == getSpreadPercent(orderBooks, tokenType)
        liquidityCheck == checkLiquidity(orderBooks, tokenType, "BUY", gateSize)
        confidence == calculateConfidence(diff, spreadPercent,
                                          liquidityCheck.availableLiquidity, oracleAge)
    IN [tokenType |-> tokenType,
        softwarePrice |-> softwarePrice,
        polymarketPrice |-> polyPrice,
        difference |-> diff,
        confidence |-> confidence,
        spread |-> spreadPercent,
        liquidityScore |-> QMin(QDiv(liquidityCheck.availableLiquidity,
                                     QMul(tradeAmount, QInt(5))), QOne),
        recommendedSize |-> IF enableDynamicSizing
                            THEN calculateDynamicSize(confidence,
                                     liquidityCheck.availableLiquidity, usdc)
                            ELSE tradeAmount]

\* a scan over ['DOWN', 'UP']
scanTokensDownFirst(usdc, oracleAge, t) ==
    IF tokenQualifies("DOWN", t) THEN opportunityFor("DOWN", usdc, oracleAge)
    ELSE IF tokenQualifies("UP", t) THEN opportunityFor("UP", usdc, oracleAge)
    ELSE NoOpp

\* the for loop of checkTradeOpportunity, after the balance gate
scanTokens(usdc, oracleAge, t) ==
    IF tokenQualifies("UP", t) THEN opportunityFor("UP", usdc, oracleAge)
    ELSE IF tokenQualifies("DOWN", t) THEN opportunityFor("DOWN", usdc, oracleAge)
    ELSE NoOpp


(***************************************************************************)
(* Feeds (the 'message' handlers of the two streaming connections).  The   *)
(* handlers are entry points driven by the feeds; they run on an open      *)
(* connection.  The connections themselves are modelled with start().      *)
(***************************************************************************)
\* the payloads of the software oracle: prob_up and prob_down in percent
OracleMsgs == {[prob_up |-> 75, prob_down |-> 25], [prob_up |-> 28, prob_down |-> 72],
               [prob_up |-> 0, prob_down |-> 0]}

\* softwareWs.on('message'): the prices stored for a payload received at time t
onOracleMessage(m, t) ==
    [UP |-> Q(m.prob_up, 100), DOWN |-> Q(m.prob_down, 100), lastUpdate |-> t]

\* processPolymarketMessage for topic clob_market: the price stored for the asset
\* (price = QZero stands for a payload without price)
marketPriceAfter(old, price, bids, asks, t) ==
    LET p1 == IF QGt(price, QZero) THEN price ELSE old
        mid == updateOrderBook("x", bids, asks, t).midPrice
    IN IF Len(bids) > 0 /\ Len(asks) > 0 /\ QGt(mid, QZero) THEN mid ELSE p1

\* processPolymarketMessage: the snapshot stored for the asset
bookAfter(old, assetId, bids, asks, t) ==
    IF Len(bids) > 0 \/ Len(asks) > 0 THEN updateOrderBook(assetId, bids, asks, t) ELSE old

(***************************************************************************)
(* PnLTracker                                                              *)
(***************************************************************************)
\* a tracker that stores the current drawdown as the maximum
recordTradeCurrentDrawdown(tracker, result) ==
    LET running == QAdd(tracker.runningPnL, result.pnl)
        peak == IF QGt(running, tracker.peakPnL) THEN running ELSE tracker.peakPnL
    IN [trades |-> Append(tracker.trades, result),
        runningPnL |-> running,
        peakPnL |-> peak,
        maxDrawdown |-> QSub(peak, running)]

\* a tracker whose peak follows the running P&L
recordTradePeakFollows(tracker, result) ==
    LET running == QAdd(tracker.runningPnL, result.pnl)
    IN [trades |-> Append(tracker.trades, result),
        runningPnL |-> running,
        peakPnL |-> running,
        maxDrawdown |-> tracker.maxDrawdown]

\* recordTrade(result)
recordTrade(tracker, result) ==
    LET running == QAdd(tracker.runningPnL, result.pnl)
        peak == IF QGt(running, tracker.peakPnL) THEN running ELSE tracker.peakPnL
        currentDrawdown == QSub(peak, running)
    IN [trades |-> Append(tracker.trades, result),
        runningPnL |-> running,
        peakPnL |-> peak,
        maxDrawdown |-> IF QGt(currentDrawdown, tracker.maxDrawdown)
                        THEN currentDrawdown ELSE tracker.maxDrawdown]

(***************************************************************************)
(* The venue: every order id is none (not placed), open, filled or         *)
(* cancelled; the open-order set holds the open ones.                      *)
(***************************************************************************)
OrderIds == (1..MaxTrades) \X {"buy", "tp", "sl"}

\* a checkOrderStatus that takes the order for gone when the query failed
checkOrderStatusAssumesGone(orderId, ok) ==
    IF ok /\ orders[orderId] = "open" THEN "OPEN" ELSE "FILLED_OR_CANCELLED"

\* checkOrderStatus(orderId); ok = FALSE: the open-orders query failed
checkOrderStatus(orderId, ok) ==
    IF ~ok THEN "UNKNOWN"
    ELSE IF orders[orderId] = "open" THEN "OPEN" ELSE "FILLED_OR_CANCELLED"

\* an isOrderOpen that answers true when the query failed
isOrderOpenUnlessKnown(orderId, ok) == ~ok \/ orders[orderId] = "open"

\* isOrderOpen(orderId); ok = FALSE: the open-orders query failed
isOrderOpen(orderId, ok) == ok /\ orders[orderId] = "open"

\* does executeTrade abort after the status check of the entry order
entryAborts(orderStatus) == orderStatus \in {"CANCELLED", "EXPIRED"}

(***************************************************************************)
(* The trading loop (startImmediateTrading, checkTradeOpportunity,         *)
(* executeTrade)                                                           *)
(***************************************************************************)
NoTrade == [id |-> 0, status |-> "none"]

\* setTimeout(immediateTradingLoop, 1000)
reschedule == [pc |-> "idle", due |-> now + 1, oracleAge |-> 0, opp |-> NoOpp]

\* no gate before the balance call
tickGateBalanceFirst(t) == "balance"

\* the gates before the balance call without the cooldown gate
tickGateNoCooldown(t) ==
    IF t - softwarePrices.lastUpdate > priceStaleMs THEN "stale" ELSE "balance"

\* the gates of checkTradeOpportunity that precede the balance call
tickGate(t) ==
    IF tradeCooldown - (t - lastTradeTime) > 0 THEN "cooldown"
    ELSE IF t - softwarePrices.lastUpdate > priceStaleMs THEN "stale"
    ELSE "balance"

\* immediateTradingLoop up to its first await
TradingLoopTick ==
    /\ loop.pc = "idle"
    /\ now >= loop.due
    /\ loop' = IF ~isRunning THEN [loop EXCEPT !.pc = "stopped"]
               ELSE IF tickGate(now) = "balance"
                    THEN [loop EXCEPT !.pc = "balance",
                                      !.oracleAge = now - softwarePrices.lastUpdate]
                    ELSE reschedule
    /\ UNCHANGED <<now, isRunning, enableDynamicSizing, softwarePrices, polymarketPrices,
                   orderBooks, lastTradeTime, tradeCounter, trades, activeTrades,
                   orders, passes, pnl, logged, lastSubmit, closeCalls, sent,
                   startup, feeds,
                   limiter, oracle, snapshot, lastCheck,
                   ticks, server>>

\* a failing balance call that ends the trading loop
BalanceFailsEndsLoop ==
    /\ loop.pc = "balance"
    /\ loop' = [loop EXCEPT !.pc = "stopped"]
    /\ logged' = logged \cup {<<"Error in trading loop", 0>>}
    /\ UNCHANGED <<now, isRunning, enableDynamicSizing, softwarePrices, polymarketPrices,
                   orderBooks, lastTradeTime, tradeCounter, trades, activeTrades,
                   orders, passes, pnl, lastSubmit, closeCalls, sent,
                   startup, feeds,
                   limiter, oracle, snapshot, lastCheck,
                   ticks, server>>

\* the balance call fails after its retries: the loop logs and reschedules
BalanceFails ==
    /\ loop.pc = "balance"
    /\ loop' = reschedule
    /\ logged' = logged \cup {<<"Error in trading loop", 0>>}
    /\ UNCHANGED <<now, isRunning, enableDynamicSizing, softwarePrices, polymarketPrices,
                   orderBooks, lastTradeTime, tradeCounter, trades, activeTrades,
                   orders, passes, pnl, lastSubmit, closeCalls, sent,
                   startup, feeds,
                   limiter, oracle, snapshot, lastCheck,
                   ticks, server>>

Balances == {QInt(400), QInt(600)}

\* the balance call returns: balance gate, scan, and the start of executeTrade
BalanceReturns(usdc) ==
    /\ loop.pc = "balance"
    /\ LET opp == IF QLt(usdc, minimumBalance) THEN NoOpp
                  ELSE scanTokens(usdc, loop.oracleAge, now)
       IN IF opp = NoOpp
          THEN /\ loop' = reschedule
               /\ UNCHANGED <<lastTradeTime, tradeCounter>>
          ELSE /\ tradeCounter < MaxTrades
               /\ lastTradeTime' = now
               /\ tradeCounter' = tradeCounter + 1
               /\ loop' = [loop EXCEPT !.pc = "buy", !.opp = opp]
    /\ UNCHANGED <<now, isRunning, enableDynamicSizing, softwarePrices, polymarketPrices,
                   orderBooks, trades, activeTrades, orders, passes, pnl, logged,
                   lastSubmit, closeCalls, sent,
                   startup, feeds,
                   limiter, oracle, snapshot, lastCheck,
                   ticks, server>>

\* a catch block of executeTrade that logs nothing
executeTradeFailsSilently ==
    /\ loop' = reschedule
    /\ logged' = logged

\* an order placement fails after its retries: executeTrade logs and returns
executeTradeFails ==
    /\ loop' = reschedule
    /\ logged' = logged \cup {<<"TRADE EXECUTION FAILED", tradeCounter>>}

\* the exit prices executeTrade computes from the entry's market price
takeProfitPrice(actualBuyPrice) ==
    QMin(QAdd(actualBuyPrice, takeProfitAmount), Q(99, 100))

\* a stop-loss price without the 0.01 floor
stopLossPriceNoFloor(actualBuyPrice) == QSub(actualBuyPrice, stopLossAmount)

stopLossPrice(actualBuyPrice) ==
    QMax(QSub(actualBuyPrice, stopLossAmount), Q(1, 100))

\* the arguments of the three createAndPostOrder calls of executeTrade
buyOrder(k, opp) ==
    [order |-> <<k, "buy">>, tokenType |-> opp.tokenType, side |-> "BUY",
     price |-> QMul(opp.polymarketPrice, Q(101, 100)),
     size |-> QDiv(opp.recommendedSize, opp.polymarketPrice)]

takeProfitOrder(k, opp) ==
    [order |-> <<k, "tp">>, tokenType |-> opp.tokenType, side |-> "SELL",
     price |-> takeProfitPrice(opp.polymarketPrice),
     size |-> QDiv(opp.recommendedSize, opp.polymarketPrice)]

stopLossOrder(k, opp) ==
    [order |-> <<k, "sl">>, tokenType |-> opp.tokenType, side |-> "SELL",
     price |-> stopLossPrice(opp.polymarketPrice),
     size |-> QDiv(opp.recommendedSize, opp.polymarketPrice)]

\* the entry order is placed (it rests open or fills at once); then the 3 s wait
BuyReturns(res) ==
    /\ loop.pc = "buy"
    /\ orders' = [orders EXCEPT ![<<tradeCounter, "buy">>] = res]
    /\ sent' = Append(sent, buyOrder(tradeCounter, loop.opp))
    /\ lastSubmit' = now
    /\ loop' = [loop EXCEPT !.pc = "settle", !.due = now + 3]
    /\ UNCHANGED <<now, isRunning, enableDynamicSizing, softwarePrices, polymarketPrices,
                   orderBooks, lastTradeTime, tradeCounter, trades, activeTrades,
                   passes, pnl, logged, closeCalls,
                   startup, feeds,
                   limiter, oracle, snapshot, lastCheck,
                   ticks, server>>

BuyFails ==
    /\ loop.pc = "buy"
    /\ executeTradeFails
    /\ UNCHANGED <<now, isRunning, enableDynamicSizing, softwarePrices, polymarketPrices,
                   orderBooks, lastTradeTime, tradeCounter, trades, activeTrades,
                   orders, passes, pnl, lastSubmit, closeCalls, sent,
                   startup, feeds,
                   limiter, oracle, snapshot, lastCheck,
                   ticks, server>>

\* the 3 s wait is over: checkOrderStatus(buyResult.orderID) is issued
SettleDone ==
    /\ loop.pc = "settle"
    /\ now >= loop.due
    /\ loop' = [loop EXCEPT !.pc = "status"]
    /\ UNCHANGED <<now, isRunning, enableDynamicSizing, softwarePrices, polymarketPrices,
                   orderBooks, lastTradeTime, tradeCounter, trades, activeTrades,
                   orders, passes, pnl, logged, lastSubmit, closeCalls, sent,
                   startup, feeds,
                   limiter, oracle, snapshot, lastCheck,
                   ticks, server>>

\* the status of the entry order arrives; the take-profit order is issued unless
\* executeTrade aborts
StatusReturns(ok) ==
    /\ loop.pc = "status"
    /\ LET orderStatus == checkOrderStatus(<<tradeCounter, "buy">>, ok)
       IN loop' = IF entryAborts(orderStatus) THEN reschedule
                  ELSE [loop EXCEPT !.pc = "tp"]
    /\ UNCHANGED <<now, isRunning, enableDynamicSizing, softwarePrices, polymarketPrices,
                   orderBooks, lastTradeTime, tradeCounter, trades, activeTrades,
                   orders, passes, pnl, logged, lastSubmit, closeCalls, sent,
                   startup, feeds,
                   limiter, oracle, snapshot, lastCheck,
                   ticks, server>>

\* the take-profit order is placed; the stop-loss order is issued
TakeProfitReturns(res) ==
    /\ loop.pc = "tp"
    /\ orders' = [orders EXCEPT ![<<tradeCounter, "tp">>] = res]
    /\ sent' = Append(sent, takeProfitOrder(tradeCounter, loop.opp))
    /\ loop' = [loop EXCEPT !.pc = "sl"]
    /\ UNCHANGED <<now, isRunning, enableDynamicSizing, softwarePrices, polymarketPrices,
                   orderBooks, lastTradeTime, tradeCounter, trades, activeTrades,
                   passes, pnl, logged, lastSubmit, closeCalls,
                   startup, feeds,
                   limiter, oracle, snapshot, lastCheck,
                   ticks, server>>

TakeProfitFails ==
    /\ loop.pc = "tp"
    /\ executeTradeFails
    /\ UNCHANGED <<now, isRunning, enableDynamicSizing, softwarePrices, polymarketPrices,
                   orderBooks, lastTradeTime, tradeCounter, trades, activeTrades,
                   orders, passes, pnl, lastSubmit, closeCalls, sent,
                   startup, feeds,
                   limiter, oracle, snapshot, lastCheck,
                   ticks, server>>

\* the Trade object built by executeTrade
newTrade(id, opp, t) ==
    LET buyPrice == opp.polymarketPrice
        tradeSize == opp.recommendedSize
        shares == QDiv(tradeSize, buyPrice)
    IN [id |-> id,
        tokenType |-> opp.tokenType,
        buyPrice |-> buyPrice,
        targetPrice |-> takeProfitPrice(buyPrice),
        stopPrice |-> stopLossPrice(buyPrice),
        shares |-> shares,
        amount |-> tradeSize,
        timestamp |-> t,
        status |-> "filled",
        exitReason |-> "none"]

\* the stop-loss order is placed: the Trade is recorded and the loop reschedules
StopLossReturns(res) ==
    /\ loop.pc = "sl"
    /\ orders' = [orders EXCEPT ![<<tradeCounter, "sl">>] = res]
    /\ sent' = Append(sent, stopLossOrder(tradeCounter, loop.opp))
    /\ trades' = [trades EXCEPT ![tradeCounter] = newTrade(tradeCounter, loop.opp, now)]
    /\ activeTrades' = Append(activeTrades, tradeCounter)
    /\ loop' = reschedule
    /\ UNCHANGED <<now, isRunning, enableDynamicSizing, softwarePrices, polymarketPrices,
                   orderBooks, lastTradeTime, tradeCounter, passes, pnl, logged,
                   lastSubmit, closeCalls,
                   startup, feeds,
                   limiter, oracle, snapshot, lastCheck,
                   ticks, server>>

StopLossFails ==
    /\ loop.pc = "sl"
    /\ executeTradeFails
    /\ UNCHANGED <<now, isRunning, enableDynamicSizing, softwarePrices, polymarketPrices,
                   orderBooks, lastTradeTime, tradeCounter, trades, activeTrades,
                   orders, passes, pnl, lastSubmit, closeCalls, sent,
                   startup, feeds,
                   limiter, oracle, snapshot, lastCheck,
                   ticks, server>>


(***************************************************************************)
(* The order monitor (startOrderMonitor) and recordTradeClose              *)
(***************************************************************************)
NoPass == [pc |-> "off", live |-> FALSE, arr |-> <<>>, i |-> 0,
           tpStatus |-> "none", slStatus |-> "none"]

\* the array a pass iterates: this.activeTrades as long as no sweep has replaced
\* it since the pass began, the array of that time afterwards
passArray(p) == IF passes[p].live THEN activeTrades ELSE passes[p].arr

\* the TradeResult handed to the ledger
tradeResult(trade, exitReason) ==
    LET exitPrice == IF exitReason = "take_profit" THEN trade.targetPrice ELSE trade.stopPrice
    IN [tradeId |-> trade.id,
        tokenType |-> trade.tokenType,
        entryPrice |-> trade.buyPrice,
        exitPrice |-> exitPrice,
        shares |-> trade.shares,
        pnl |-> QMul(QSub(exitPrice, trade.buyPrice), trade.shares),
        pnlPercent |-> QMul(QDiv(QSub(exitPrice, trade.buyPrice), trade.buyPrice), QInt(100)),
        exitReason |-> exitReason]

\* a recordTradeClose without its guard
neverClosed(trade) == FALSE

\* recordTradeClose(trade, exitReason): does it return at once
alreadyClosed(trade) == trade.status = "closed"

\* recordTradeClose(trade, exitReason)
recordTradeClose(k, exitReason) ==
    /\ closeCalls' = [closeCalls EXCEPT ![k] = @ + 1]
    /\ IF alreadyClosed(trades[k])
       THEN UNCHANGED <<trades, pnl>>
       ELSE /\ pnl' = recordTrade(pnl, tradeResult(trades[k], exitReason))
            /\ trades' = [trades EXCEPT ![k].status = "closed",
                                        ![k].exitReason = exitReason]

\* the for loop of a pass: the next position after i holding a trade in status
\* 'filled' (0: the loop is over); st gives the trades' status at that moment
RECURSIVE nextFilled(_, _, _)
nextFilled(arr, i, st) ==
    IF i + 1 > Len(arr) THEN 0
    ELSE IF st[arr[i + 1]].status = "filled" THEN i + 1
    ELSE nextFilled(arr, i + 1, st)

\* the pass goes on with the rest of its array and issues the take-profit query of
\* the next filled trade, or ends
passContinues(p, arr, st) ==
    LET j == nextFilled(arr, passes[p].i, st)
    IN IF j = 0 THEN NoPass
       ELSE [passes[p] EXCEPT !.i = j, !.tpStatus = "none", !.slStatus = "none",
                              !.pc = "tpq"]

passTrade(p) == passArray(p)[passes[p].i]

\* the interval fires: a pass begins
MonitorFires(p) ==
    /\ passes[p].pc = "off"
    /\ \A q \in 1..MaxPasses : q < p => passes[q].pc # "off"
    /\ isRunning
    /\ LET j == nextFilled(activeTrades, 0, trades)
       IN /\ j # 0
          /\ passes' = [passes EXCEPT ![p] = [NoPass EXCEPT !.pc = "tpq", !.live = TRUE,
                                                             !.i = j]]
    /\ UNCHANGED <<now, isRunning, enableDynamicSizing, softwarePrices, polymarketPrices,
                   orderBooks, lastTradeTime, tradeCounter, loop, trades, activeTrades,
                   orders, pnl, logged, lastSubmit, closeCalls, sent,
                   startup, feeds,
                   limiter, oracle, snapshot, lastCheck,
                   ticks, server>>

\* tpStatus = await checkOrderStatus(trade.takeProfitOrderId)
PassTakeProfitStatus(p, ok) ==
    /\ passes[p].pc = "tpq"
    /\ passes' = [passes EXCEPT ![p].tpStatus = checkOrderStatus(<<passTrade(p), "tp">>, ok),
                                ![p].pc = "slq"]
    /\ UNCHANGED <<now, isRunning, enableDynamicSizing, softwarePrices, polymarketPrices,
                   orderBooks, lastTradeTime, tradeCounter, loop, trades, activeTrades,
                   orders, pnl, logged, lastSubmit, closeCalls, sent,
                   startup, feeds,
                   limiter, oracle, snapshot, lastCheck,
                   ticks, server>>

\* slStatus = await checkOrderStatus(trade.stopLossOrderId), and the branch taken
PassStopLossStatus(p, ok) ==
    /\ passes[p].pc = "slq"
    /\ LET slStatus == checkOrderStatus(<<passTrade(p), "sl">>, ok)
       IN passes' = [passes EXCEPT ![p] =
              IF passes[p].tpStatus = "FILLED_OR_CANCELLED"
              THEN [passes[p] EXCEPT !.slStatus = slStatus, !.pc = "slopen"]
              ELSE IF slStatus = "FILLED_OR_CANCELLED"
                   THEN [passes[p] EXCEPT !.slStatus = slStatus, !.pc = "tpopen"]
                   ELSE passContinues(p, passArray(p), trades)]
    /\ UNCHANGED <<now, isRunning, enableDynamicSizing, softwarePrices, polymarketPrices,
                   orderBooks, lastTradeTime, tradeCounter, loop, trades, activeTrades,
                   orders, pnl, logged, lastSubmit, closeCalls, sent,
                   startup, feeds,
                   limiter, oracle, snapshot, lastCheck,
                   ticks, server>>

\* take-profit branch: slStillOpen = await isOrderOpen(trade.stopLossOrderId)
PassStopLossOpen(p, ok) ==
    /\ passes[p].pc = "slopen"
    /\ LET k == passTrade(p)
           slStillOpen == isOrderOpen(<<k, "sl">>, ok)
       IN IF slStillOpen
          THEN /\ passes' = [passes EXCEPT ![p].pc = "slcancel"]
               /\ UNCHANGED <<trades, pnl, closeCalls>>
          ELSE IF passes[p].slStatus = "FILLED_OR_CANCELLED"
               THEN /\ recordTradeClose(k, "take_profit")
                    /\ passes' = [passes EXCEPT ![p] = passContinues(p, passArray(p), trades')]
               ELSE /\ passes' = [passes EXCEPT ![p] = passContinues(p, passArray(p), trades)]
                    /\ UNCHANGED <<trades, pnl, closeCalls>>
    /\ UNCHANGED <<now, isRunning, enableDynamicSizing, softwarePrices, polymarketPrices,
                   orderBooks, lastTradeTime, tradeCounter, loop, activeTrades,
                   orders, logged, lastSubmit, sent,
                   startup, feeds,
                   limiter, oracle, snapshot, lastCheck,
                   ticks, server>>

\* stop-loss branch: tpStillOpen = await isOrderOpen(trade.takeProfitOrderId)
PassTakeProfitOpen(p, ok) ==
    /\ passes[p].pc = "tpopen"
    /\ LET tpStillOpen == isOrderOpen(<<passTrade(p), "tp">>, ok)
       IN passes' = [passes EXCEPT ![p] =
              IF tpStillOpen THEN [passes[p] EXCEPT !.pc = "tpcancel"]
              ELSE passContinues(p, passArray(p), trades)]
    /\ UNCHANGED <<now, isRunning, enableDynamicSizing, softwarePrices, polymarketPrices,
                   orderBooks, lastTradeTime, tradeCounter, loop, trades, activeTrades,
                   orders, pnl, logged, lastSubmit, closeCalls, sent,
                   startup, feeds,
                   limiter, oracle, snapshot, lastCheck,
                   ticks, server>>

\* cancelOrder(orderId): the venue's order table and the log afterwards;
\* ok = FALSE: the cancel request failed after its retries
cancelOrder(orderId, ok) ==
    /\ orders' = IF ok /\ orders[orderId] = "open"
                 THEN [orders EXCEPT ![orderId] = "cancelled"] ELSE orders
    /\ logged' = IF ok THEN logged ELSE logged \cup {<<"Failed to cancel order", orderId>>}

\* the exit reason a pass closes its trade with after the cancel of the sibling
passReason(pc) == IF pc = "slcancel" THEN "take_profit" ELSE "stop_loss"

\* await cancelOrder(sibling) returns; recordTradeClose; the pass goes on
PassCancelDone(p, ok) ==
    /\ passes[p].pc \in {"slcancel", "tpcancel"}
    /\ LET k == passTrade(p)
           sibling == IF passes[p].pc = "slcancel" THEN <<k, "sl">> ELSE <<k, "tp">>
       IN /\ cancelOrder(sibling, ok)
          /\ recordTradeClose(k, passReason(passes[p].pc))
          /\ passes' = [passes EXCEPT ![p] = passContinues(p, passArray(p), trades')]
    /\ UNCHANGED <<now, isRunning, enableDynamicSizing, softwarePrices, polymarketPrices,
                   orderBooks, lastTradeTime, tradeCounter, loop, activeTrades, lastSubmit, sent,
                   startup, feeds,
                   limiter, oracle, snapshot, lastCheck,
                   ticks, server>>

\* the cancel request of a pass reaches the venue, which takes the order out of the
\* open-order set; the answer is still on its way
CancelReachesVenue(p) ==
    /\ passes[p].pc \in {"slcancel", "tpcancel"}
    /\ LET sibling == <<passTrade(p), IF passes[p].pc = "slcancel" THEN "sl" ELSE "tp">>
       IN /\ orders[sibling] = "open"
          /\ orders' = [orders EXCEPT ![sibling] = "cancelled"]
    /\ UNCHANGED <<now, isRunning, enableDynamicSizing, softwarePrices, polymarketPrices,
                   orderBooks, lastTradeTime, tradeCounter, loop, trades, activeTrades,
                   passes, pnl, logged, lastSubmit, closeCalls, sent,
                   startup, feeds,
                   limiter, oracle, snapshot, lastCheck,
                   ticks, server>>

(***************************************************************************)
(* start(), the two streaming connections and the monitoring loop          *)
(***************************************************************************)
Feeds == {"software", "polymarket"}

AllLoops == {"monitoring", "cleanup", "orderMonitor", "trading"}

reconnectDelay == 5
initialWait == 5

\* no WebSocket object yet, no reconnect timer armed
NoSocket == [state |-> "none", retry |-> -1, attempts |-> 0]

NotStarted == [pc |-> "new", due |-> 0, check |-> "none", loops |-> {}]

\* a connect() without the running-flag guard
connectUnguarded(sock) == [sock EXCEPT !.state = "open", !.attempts = @ + 1]

\* connect() of connectSoftwareWebSocket and of connectPolymarketWebSocket:
\* returns at once unless the bot is running, creates a WebSocket otherwise
connect(sock) ==
    IF ~isRunning THEN sock
    ELSE [sock EXCEPT !.state = "open", !.attempts = @ + 1]

\* start() is called: checkAndDisplayBalances is awaited
StartCalled ==
    /\ startup.pc \in {"new", "failed"}
    /\ startup' = [startup EXCEPT !.pc = "balances", !.check = "none"]
    /\ UNCHANGED <<now, isRunning, enableDynamicSizing, softwarePrices, polymarketPrices,
                   orderBooks, lastTradeTime, tradeCounter, loop, trades, activeTrades,
                   orders, passes, pnl, logged, lastSubmit, closeCalls, sent, feeds,
                   limiter, oracle, snapshot, lastCheck,
                   ticks, server>>

\* a start() that goes on whatever the balance check says
StartBalancesIgnored(sufficient) ==
    /\ startup.pc = "balances"
    /\ startup' = [startup EXCEPT !.pc = "market",
                      !.check = IF sufficient THEN "sufficient" ELSE "insufficient"]
    /\ UNCHANGED <<now, isRunning, enableDynamicSizing, softwarePrices, polymarketPrices,
                   orderBooks, lastTradeTime, tradeCounter, loop, trades, activeTrades,
                   orders, passes, pnl, logged, lastSubmit, closeCalls, sent, feeds,
                   limiter, oracle, snapshot, lastCheck,
                   ticks, server>>

\* the balances arrive and checkSufficientBalance answers: start() throws
\* 'Insufficient balance' or goes on to initializeMarket
StartBalancesChecked(sufficient) ==
    /\ startup.pc = "balances"
    /\ startup' = [startup EXCEPT !.pc = IF sufficient THEN "market" ELSE "failed",
                      !.check = IF sufficient THEN "sufficient" ELSE "insufficient"]
    /\ logged' = IF sufficient THEN logged
                 ELSE logged \cup {<<"Insufficient funds to start trading!", 0>>}
    /\ UNCHANGED <<now, isRunning, enableDynamicSizing, softwarePrices, polymarketPrices,
                   orderBooks, lastTradeTime, tradeCounter, loop, trades, activeTrades,
                   orders, passes, pnl, lastSubmit, closeCalls, sent, feeds,
                   limiter, oracle, snapshot, lastCheck,
                   ticks, server>>

\* initializeMarket throws (no market found): start() fails
StartMarketFails ==
    /\ startup.pc = "market"
    /\ startup' = [startup EXCEPT !.pc = "failed"]
    /\ UNCHANGED <<now, isRunning, enableDynamicSizing, softwarePrices, polymarketPrices,
                   orderBooks, lastTradeTime, tradeCounter, loop, trades, activeTrades,
                   orders, passes, pnl, logged, lastSubmit, closeCalls, sent, feeds,
                   limiter, oracle, snapshot, lastCheck,
                   ticks, server>>

\* initializeMarket returns: connectSoftwareWebSocket and
\* connectPolymarketWebSocket each call their connect(), then the 5 s wait begins
StartConnects ==
    /\ startup.pc = "market"
    /\ feeds' = [f \in Feeds |-> connect(feeds[f])]
    /\ startup' = [startup EXCEPT !.pc = "wait", !.due = now + initialWait]
    /\ UNCHANGED <<now, isRunning, enableDynamicSizing, softwarePrices, polymarketPrices,
                   orderBooks, lastTradeTime, tradeCounter, loop, trades, activeTrades,
                   orders, passes, pnl, logged, lastSubmit, closeCalls, sent,
                   limiter, oracle, snapshot, lastCheck,
                   ticks, server>>

\* the wait is over: the running flag is set, the three interval loops are
\* started and the trading loop runs its first tick at once
StartCompletes ==
    /\ startup.pc = "wait"
    /\ now >= startup.due
    /\ isRunning' = TRUE
    /\ startup' = [startup EXCEPT !.pc = "done", !.loops = AllLoops]
    /\ loop' = [pc |-> "idle", due |-> now, oracleAge |-> 0, opp |-> NoOpp]
    /\ UNCHANGED <<now, enableDynamicSizing, softwarePrices, polymarketPrices,
                   orderBooks, lastTradeTime, tradeCounter, trades, activeTrades,
                   orders, passes, pnl, logged, lastSubmit, closeCalls, sent, feeds,
                   limiter, oracle, snapshot, lastCheck,
                   ticks, server>>

\* a tick of startMonitoring whose periodic balance check is due: an insufficient
\* balance is logged as a warning and nothing else happens
MonitoringTick(sufficient) ==
    /\ isRunning
    /\ "monitoring" \in startup.loops
    /\ logged' = IF sufficient THEN logged ELSE logged \cup {<<"Low balance!", 0>>}
    /\ UNCHANGED <<now, isRunning, enableDynamicSizing, softwarePrices, polymarketPrices,
                   orderBooks, lastTradeTime, tradeCounter, loop, trades, activeTrades,
                   orders, passes, pnl, lastSubmit, closeCalls, sent, startup, feeds,
                   limiter, oracle, snapshot, lastCheck,
                   ticks, server>>

\* a connection closes (or an attempt fails): the 'close' handler arms the
\* reconnect timer if the bot is running
SocketCloses(f, h) ==
    /\ feeds[f].state = "open"
    /\ now + reconnectDelay <= Epoch + h
    /\ feeds' = [feeds EXCEPT ![f] =
                    [@ EXCEPT !.state = "closed",
                              !.retry = IF isRunning THEN now + reconnectDelay ELSE @]]
    /\ UNCHANGED <<now, isRunning, enableDynamicSizing, softwarePrices, polymarketPrices,
                   orderBooks, lastTradeTime, tradeCounter, loop, trades, activeTrades,
                   orders, passes, pnl, logged, lastSubmit, closeCalls, sent, startup,
                   limiter, oracle, snapshot, lastCheck,
                   ticks, server>>

\* the reconnect timer fires: connect() runs
ReconnectFires(f) ==
    /\ feeds[f].retry # -1
    /\ now >= feeds[f].retry
    /\ feeds' = [feeds EXCEPT ![f] = connect([@ EXCEPT !.retry = -1])]
    /\ UNCHANGED <<now, isRunning, enableDynamicSizing, softwarePrices, polymarketPrices,
                   orderBooks, lastTradeTime, tradeCounter, loop, trades, activeTrades,
                   orders, passes, pnl, logged, lastSubmit, closeCalls, sent, startup,
                   limiter, oracle, snapshot, lastCheck,
                   ticks, server>>

(***************************************************************************)
(* The cleanup sweep (startTradeCleanup), stop(), the venue and the clock  *)
(***************************************************************************)
\* a filter that evicts only the old trades that are closed
RECURSIVE filterYoungOrOpen(_, _)
filterYoungOrOpen(arr, t) ==
    IF arr = <<>> THEN <<>>
    ELSE IF /\ t - trades[Head(arr)].timestamp > maxTradeAge
            /\ trades[Head(arr)].status = "closed"
         THEN filterYoungOrOpen(Tail(arr), t)
         ELSE <<Head(arr)>> \o filterYoungOrOpen(Tail(arr), t)

RECURSIVE filterYoung(_, _)
filterYoung(arr, t) ==
    IF arr = <<>> THEN <<>>
    ELSE IF t - trades[Head(arr)].timestamp > maxTradeAge
         THEN filterYoung(Tail(arr), t)
         ELSE <<Head(arr)>> \o filterYoung(Tail(arr), t)

\* the sweep replaces this.activeTrades by a new, filtered array; passes in flight
\* keep iterating the array they began with
CleanupSweep ==
    /\ isRunning
    /\ activeTrades # <<>>
    /\ activeTrades' = filterYoung(activeTrades, now)
    /\ passes' = [p \in 1..MaxPasses |->
                    IF passes[p].live
                    THEN [passes[p] EXCEPT !.live = FALSE, !.arr = activeTrades]
                    ELSE passes[p]]
    /\ UNCHANGED <<now, isRunning, enableDynamicSizing, softwarePrices, polymarketPrices,
                   orderBooks, lastTradeTime, tradeCounter, loop, trades,
                   orders, pnl, logged, lastSubmit, closeCalls, sent,
                   startup, feeds,
                   limiter, oracle, snapshot, lastCheck,
                   ticks, server>>

\* stop() clears the running flag and closes both sockets; their 'close' handlers
\* then find the flag cleared and arm no timer
Stop ==
    /\ isRunning
    /\ isRunning' = FALSE
    /\ feeds' = [f \in Feeds |->
                    IF feeds[f].state = "open"
                    THEN [feeds[f] EXCEPT !.state = "closed"]
                    ELSE feeds[f]]
    /\ UNCHANGED <<now, enableDynamicSizing, softwarePrices, polymarketPrices,
                   orderBooks, lastTradeTime, tradeCounter, loop, trades, activeTrades,
                   orders, passes, pnl, logged, lastSubmit, closeCalls, sent,
                   startup,
                   limiter, oracle, snapshot, lastCheck,
                   ticks, server>>

\* an open order leaves the open-order set at the venue (filled, or cancelled or
\* expired there)
OrderLeaves(o, how) ==
    /\ orders[o] = "open"
    /\ orders' = [orders EXCEPT ![o] = how]
    /\ UNCHANGED <<now, isRunning, enableDynamicSizing, softwarePrices, polymarketPrices,
                   orderBooks, lastTradeTime, tradeCounter, loop, trades, activeTrades,
                   passes, pnl, logged, lastSubmit, closeCalls, sent,
                   startup, feeds,
                   limiter, oracle, snapshot, lastCheck,
                   ticks, server>>

\* h seconds after Epoch at most are explored
AdvanceTime(h) ==
    /\ now < Epoch + h
    /\ now' = now + 1
    /\ UNCHANGED <<isRunning, enableDynamicSizing, softwarePrices, polymarketPrices,
                   orderBooks, lastTradeTime, tradeCounter, loop, trades, activeTrades,
                   orders, passes, pnl, logged, lastSubmit, closeCalls, sent,
                   startup, feeds,
                   limiter, oracle, snapshot, lastCheck,
                   ticks, server>>

(***************************************************************************)
(* The RateLimiter (waitForSlot, executeWithRetry).  Times are in ticks;   *)
(* a timer fires in the tick it is due and a thunk settles in the tick it  *)
(* was invoked in; calls arrive within ArrivalWindow ticks.                *)
(***************************************************************************)
MaxCallers == 2
LimiterHorizon == 16
ArrivalWindow == 2

Keys == {"get-orders", "balance-check"}

minIntervalMs == 2

\* the configurations a limiter is constructed with: the default one (delays
\* 1, 2, 4, 8 under a cap of 16) and one whose cap binds (delays 2, 3, 3)
Configs == {[maxRetries |-> 4, baseDelayMs |-> 1, maxDelayMs |-> 16],
            [maxRetries |-> 3, baseDelayMs |-> 2, maxDelayMs |-> 3]}

\* the outcomes of a thunk: a value, or an error of either kind
ErrorKinds == {"429", "other"}

NoCaller == [pc |-> "new", key |-> "none", attempt |-> 0, wake |-> 0, invoked |-> 0,
             delays |-> <<>>, lastError |-> "none", outcome |-> "none"]

NewLimiter(config) ==
    [config |-> config,
     lastCallTime |-> [k \in Keys |-> 0],
     callers |-> [c \in 1..MaxCallers |-> NoCaller]]

\* a delay that doubles without a cap
backoffDelayUncapped(attempt) == limiter.config.baseDelayMs * (2 ^ attempt)

\* the delay after the failure of an attempt
backoffDelay(attempt) ==
    IF limiter.config.baseDelayMs * (2 ^ attempt) < limiter.config.maxDelayMs
    THEN limiter.config.baseDelayMs * (2 ^ attempt)
    ELSE limiter.config.maxDelayMs

\* a wait computed from the most recent call under any key
slotWaitAnyKey(key) ==
    LET lastCall == CHOOSE t \in {limiter.lastCallTime[k] : k \in Keys} :
                        \A k \in Keys : limiter.lastCallTime[k] <= t
        elapsed == now - lastCall
    IN IF elapsed < minIntervalMs THEN minIntervalMs - elapsed ELSE 0

\* waitForSlot up to its sleep: the time to sleep, 0 for none
slotWait(key) ==
    LET lastCall == limiter.lastCallTime[key]
        elapsed == now - lastCall
    IN IF elapsed < minIntervalMs THEN minIntervalMs - elapsed ELSE 0

\* the end of waitForSlot and the invocation of the thunk that follows it
invokeThunk(lim, c) ==
    [lim EXCEPT !.lastCallTime[lim.callers[c].key] = now,
                !.callers[c].pc = "call",
                !.callers[c].invoked = @ + 1]

\* one iteration of the loop of executeWithRetry up to its first suspension
enterAttempt(lim, c) ==
    LET wait == slotWait(lim.callers[c].key)
    IN IF wait > 0
       THEN [lim EXCEPT !.callers[c].pc = "slotSleep", !.callers[c].wake = now + wait]
       ELSE invokeThunk(lim, c)

\* executeWithRetry(fn, key) is called
ExecuteWithRetry(c, key) ==
    /\ limiter.callers[c].pc = "new"
    /\ now <= Epoch + ArrivalWindow
    /\ limiter' = enterAttempt([limiter EXCEPT !.callers[c].key = key], c)
    /\ UNCHANGED <<now, isRunning, enableDynamicSizing, softwarePrices, polymarketPrices,
                   orderBooks, lastTradeTime, tradeCounter, loop, trades, activeTrades,
                   orders, passes, pnl, logged, lastSubmit, closeCalls, sent,
                   startup, feeds, oracle, snapshot, lastCheck,
                   ticks, server>>

\* the sleep of waitForSlot is over: the last-call time is written and the thunk
\* is invoked
SlotWakes(c) ==
    /\ limiter.callers[c].pc = "slotSleep"
    /\ now >= limiter.callers[c].wake
    /\ limiter' = invokeThunk(limiter, c)
    /\ UNCHANGED <<now, isRunning, enableDynamicSizing, softwarePrices, polymarketPrices,
                   orderBooks, lastTradeTime, tradeCounter, loop, trades, activeTrades,
                   orders, passes, pnl, logged, lastSubmit, closeCalls, sent,
                   startup, feeds, oracle, snapshot, lastCheck,
                   ticks, server>>

\* the thunk resolves: executeWithRetry returns its value
ThunkSucceeds(c) ==
    /\ limiter.callers[c].pc = "call"
    /\ limiter' = [limiter EXCEPT !.callers[c].pc = "returned",
                                  !.callers[c].outcome =
                                      <<"value", limiter.callers[c].attempt>>]
    /\ UNCHANGED <<now, isRunning, enableDynamicSizing, softwarePrices, polymarketPrices,
                   orderBooks, lastTradeTime, tradeCounter, loop, trades, activeTrades,
                   orders, passes, pnl, logged, lastSubmit, closeCalls, sent,
                   startup, feeds, oracle, snapshot, lastCheck,
                   ticks, server>>

\* the thunk rejects: the catch block sleeps the backoff delay, or the loop ends
\* and executeWithRetry throws lastError
ThunkFails(c, kind) ==
    /\ limiter.callers[c].pc = "call"
    /\ LET attempt == limiter.callers[c].attempt
           error == <<kind, attempt>>
       IN limiter' =
              IF attempt < limiter.config.maxRetries
              THEN [limiter EXCEPT !.callers[c].pc = "backoff",
                                   !.callers[c].lastError = error,
                                   !.callers[c].delays = Append(@, backoffDelay(attempt)),
                                   !.callers[c].wake = now + backoffDelay(attempt)]
              ELSE [limiter EXCEPT !.callers[c].pc = "thrown",
                                   !.callers[c].lastError = error,
                                   !.callers[c].outcome = error]
    /\ UNCHANGED <<now, isRunning, enableDynamicSizing, softwarePrices, polymarketPrices,
                   orderBooks, lastTradeTime, tradeCounter, loop, trades, activeTrades,
                   orders, passes, pnl, logged, lastSubmit, closeCalls, sent,
                   startup, feeds, oracle, snapshot, lastCheck,
                   ticks, server>>

\* the backoff sleep is over: the next iteration of the loop begins
BackoffWakes(c) ==
    /\ limiter.callers[c].pc = "backoff"
    /\ now >= limiter.callers[c].wake
    /\ limiter' = enterAttempt([limiter EXCEPT !.callers[c].attempt = @ + 1], c)
    /\ UNCHANGED <<now, isRunning, enableDynamicSizing, softwarePrices, polymarketPrices,
                   orderBooks, lastTradeTime, tradeCounter, loop, trades, activeTrades,
                   orders, passes, pnl, logged, lastSubmit, closeCalls, sent,
                   startup, feeds, oracle, snapshot, lastCheck,
                   ticks, server>>

\* a tick passes; no timer of the limiter is overdue and no thunk is unsettled
LimiterTick ==
    /\ now < Epoch + LimiterHorizon
    /\ \A c \in 1..MaxCallers :
          /\ limiter.callers[c].pc \in {"slotSleep", "backoff"}
                 => now < limiter.callers[c].wake
          /\ limiter.callers[c].pc # "call"
    /\ now' = now + 1
    /\ UNCHANGED <<isRunning, enableDynamicSizing, softwarePrices, polymarketPrices,
                   orderBooks, lastTradeTime, tradeCounter, loop, trades, activeTrades,
                   orders, passes, pnl, logged, lastSubmit, closeCalls, sent,
                   startup, feeds, limiter, oracle, snapshot, lastCheck,
                   ticks, server>>

(***************************************************************************)
(* The BitcoinOracle (start, stop, fetchPrices, getOracleData, isHealthy). *)
(* Times are in update periods (updateFrequencyMs).  The history capacity, *)
(* the number of points a healthy oracle needs and the age limit of its    *)
(* last point are scaled down from 1000, 10 and 5 periods.                 *)
(***************************************************************************)
MaxCycles == 2
MaxTimers == 1
OracleCycles == 3
OracleHorizon == 3

Exchanges == {"binance", "coinbase", "kraken"}

updateFrequencyMs == 1
maxHistorySize == 2
minHealthyHistory == 1
maxHealthyAge == 2

NoCycle == [pc |-> "free", number |-> 0, timestamp |-> 0, initial |-> FALSE,
            pending |-> {}, prices |-> {}]

NewOracle ==
    [isRunning |-> FALSE,
     updateInterval |-> 0,
     timers |-> [t \in 1..MaxTimers |-> 0],
     priceHistory |-> <<>>,
     currentPrice |-> 0,
     activeSources |-> {},
     cycles |-> [c \in 1..MaxCycles |-> NoCycle],
     begun |-> 0,
     appended |-> <<>>]

\* the prices of a set of <<source, price>> pairs in ascending order
RECURSIVE sortedPrices(_)
sortedPrices(prices) ==
    IF prices = {} THEN <<>>
    ELSE LET least == CHOOSE p \in prices : \A q \in prices : p[2] <= q[2]
         IN <<least[2]>> \o sortedPrices(prices \ {least})

\* sortedPrices[Math.floor(sortedPrices.length / 2)]
medianPrice(prices) ==
    LET sorted == sortedPrices(prices)
    IN sorted[(Len(sorted) \div 2) + 1]

\* a trim that keeps the oldest points
trimNewest(history) ==
    IF Len(history) > maxHistorySize THEN SubSeq(history, 1, maxHistorySize)
    ELSE history

\* priceHistory.slice(-maxHistorySize) when the capacity is exceeded
trimHistory(history) ==
    IF Len(history) > maxHistorySize
    THEN SubSeq(history, Len(history) - maxHistorySize + 1, Len(history))
    ELSE history

\* fetchPrices up to its await: the timestamp is taken and a request is issued to
\* every exchange
beginCycle(orc, c, initial) ==
    [orc EXCEPT !.cycles[c] = [pc |-> "busy", number |-> orc.begun + 1,
                               timestamp |-> now, initial |-> initial,
                               pending |-> Exchanges, prices |-> {}],
                !.begun = @ + 1]

\* the rest of fetchPrices once every request has settled, and the rest of
\* start() if it was awaiting this cycle
completeCycle(orc, c) ==
    LET cycle == orc.cycles[c]
        point == [price |-> medianPrice(cycle.prices), timestamp |-> cycle.timestamp]
        fetched == IF cycle.prices = {} THEN orc
                   ELSE [orc EXCEPT !.currentPrice = point.price,
                                    !.priceHistory = trimHistory(Append(@, point)),
                                    !.appended = Append(@, point)]
        timer == CHOOSE t \in 1..MaxTimers : orc.timers[t] = 0
        started == IF cycle.initial
                   THEN [fetched EXCEPT !.updateInterval = timer,
                                        !.timers[timer] = now + updateFrequencyMs]
                   ELSE fetched
    IN [started EXCEPT !.cycles[c] = NoCycle]

\* start(): nothing on a running oracle; otherwise the flag is set and the initial
\* fetch is awaited
OracleStart ==
    /\ \/ oracle.isRunning /\ oracle' = oracle
       \/ /\ ~oracle.isRunning
          /\ oracle.begun < OracleCycles
          /\ Cardinality({t \in 1..MaxTimers : oracle.timers[t] # 0})
                + Cardinality({c \in 1..MaxCycles : oracle.cycles[c].initial})
                < MaxTimers
          /\ \E c \in 1..MaxCycles :
                /\ oracle.cycles[c].pc = "free"
                /\ \A b \in 1..(c - 1) : oracle.cycles[b].pc # "free"
                /\ oracle' = beginCycle([oracle EXCEPT !.isRunning = TRUE], c, TRUE)
    /\ UNCHANGED <<now, isRunning, enableDynamicSizing, softwarePrices, polymarketPrices,
                   orderBooks, lastTradeTime, tradeCounter, loop, trades, activeTrades,
                   orders, passes, pnl, logged, lastSubmit, closeCalls, sent,
                   startup, feeds, limiter, snapshot, lastCheck,
                   ticks, server>>

\* stop(): the interval referenced by updateInterval is cleared, the flag is reset
OracleStop ==
    /\ oracle' = [oracle EXCEPT !.timers = IF oracle.updateInterval = 0 THEN @
                                           ELSE [@ EXCEPT ![oracle.updateInterval] = 0],
                                !.updateInterval = 0,
                                !.isRunning = FALSE]
    /\ UNCHANGED <<now, isRunning, enableDynamicSizing, softwarePrices, polymarketPrices,
                   orderBooks, lastTradeTime, tradeCounter, loop, trades, activeTrades,
                   orders, passes, pnl, logged, lastSubmit, closeCalls, sent,
                   startup, feeds, limiter, snapshot, lastCheck,
                   ticks, server>>

\* an interval timer fires: its callback begins a fetch cycle
TimerFires(t) ==
    /\ oracle.timers[t] # 0
    /\ now >= oracle.timers[t]
    /\ oracle.begun < OracleCycles
    /\ \E c \in 1..MaxCycles :
          /\ oracle.cycles[c].pc = "free"
          /\ \A b \in 1..(c - 1) : oracle.cycles[b].pc # "free"
          /\ oracle' = beginCycle([oracle EXCEPT !.timers[t] = now + updateFrequencyMs],
                                  c, FALSE)
    /\ UNCHANGED <<now, isRunning, enableDynamicSizing, softwarePrices, polymarketPrices,
                   orderBooks, lastTradeTime, tradeCounter, loop, trades, activeTrades,
                   orders, passes, pnl, logged, lastSubmit, closeCalls, sent,
                   startup, feeds, limiter, snapshot, lastCheck,
                   ticks, server>>

\* the request of cycle c to exchange x settles with r: a positive price, 0 for a
\* price that is not positive, -1 for an error or a response that is not OK.  The
\* last request to settle completes the cycle.
SourceResponds(c, x, r) ==
    /\ oracle.cycles[c].pc = "busy"
    /\ x \in oracle.cycles[c].pending
    /\ LET settled ==
               IF r > 0
               THEN [oracle EXCEPT !.activeSources = @ \cup {x},
                                   !.cycles[c].pending = @ \ {x},
                                   !.cycles[c].prices = @ \cup {<<x, r>>}]
               ELSE [oracle EXCEPT !.activeSources = @ \ {x},
                                   !.cycles[c].pending = @ \ {x}]
       IN oracle' = IF settled.cycles[c].pending = {} THEN completeCycle(settled, c)
                    ELSE settled
    /\ UNCHANGED <<now, isRunning, enableDynamicSizing, softwarePrices, polymarketPrices,
                   orderBooks, lastTradeTime, tradeCounter, loop, trades, activeTrades,
                   orders, passes, pnl, logged, lastSubmit, closeCalls, sent,
                   startup, feeds, limiter, snapshot, lastCheck,
                   ticks, server>>

\* the clock of SpecOracle: an interval timer that is due and can begin a cycle
\* fires before time moves on
OracleTick ==
    /\ \A t \in 1..MaxTimers :
          \/ oracle.timers[t] = 0
          \/ now < oracle.timers[t]
          \/ oracle.begun >= OracleCycles
          \/ \A c \in 1..MaxCycles : oracle.cycles[c].pc # "free"
    /\ AdvanceTime(OracleHorizon)

\* isHealthy()
isHealthy ==
    /\ oracle.isRunning
    /\ Cardinality(oracle.activeSources) > 0
    /\ Len(oracle.priceHistory) > minHealthyHistory
    /\ now - oracle.priceHistory[Len(oracle.priceHistory)].timestamp < maxHealthyAge

\* the grids of momentum (calculateMomentum clamps to [-1, 1]) and of volatility
\* (calculateVolatility is a standard deviation times 6000, so not negative)
\* that getOracleData is applied to
MomentumSteps == 10
Momenta == {Q(k, MomentumSteps) : k \in (-MomentumSteps)..MomentumSteps}
Volatilities == {QInt(0), QInt(1), QInt(5), QInt(10), QInt(14), QInt(20), QInt(30)}

\* the probabilities without mean reversion at the extremes and without the clamp
calculateProbabilitiesRaw(momentum, volatility) ==
    LET momentumFactor == QDiv(QAdd(momentum, QOne), QInt(2))
        volatilityFactor == QMax(QZero, QSub(QOne, QDiv(volatility, QInt(10))))
        probUp == QAdd(Q(1, 2), QMul(QSub(momentumFactor, Q(1, 2)), volatilityFactor))
    IN [probUp |-> probUp, probDown |-> QSub(QOne, probUp), confidence |-> QZero]

\* calculateProbabilities(momentum, volatility)
calculateProbabilities(momentum, volatility) ==
    LET momentumFactor == QDiv(QAdd(momentum, QOne), QInt(2))
        volatilityFactor == QMax(QZero, QSub(QOne, QDiv(volatility, QInt(10))))
        base == QAdd(Q(1, 2), QMul(QSub(momentumFactor, Q(1, 2)), volatilityFactor))
        high == IF QGt(base, Q(8, 10))
                THEN QAdd(Q(8, 10), QMul(QSub(base, Q(8, 10)), Q(1, 2)))
                ELSE base
        low == IF QLt(high, Q(2, 10))
               THEN QSub(Q(2, 10), QMul(QSub(Q(2, 10), high), Q(1, 2)))
               ELSE high
        probUp == QMax(Q(5, 100), QMin(Q(95, 100), low))
        dataConfidence == QMin(Q(Len(oracle.priceHistory), 60), QOne)
        sourceConfidence == QMin(Q(Cardinality(oracle.activeSources), 2), QOne)
        volatilityConfidence == QMax(Q(3, 10), QSub(QOne, QDiv(volatility, QInt(20))))
    IN [probUp |-> probUp,
        probDown |-> QSub(QOne, probUp),
        confidence |-> QMul(QMul(dataConfidence, sourceConfidence), volatilityConfidence)]

\* getDefaultData()
getDefaultData ==
    [currentPrice |-> oracle.currentPrice, momentum |-> QZero, volatility |-> QZero,
     probUp |-> Q(1, 2), probDown |-> Q(1, 2), confidence |-> QZero, sources |-> {}]

\* getOracleData(), given what calculateMomentum() and calculateVolatility() return
getOracleData(momentum, volatility) ==
    IF Len(oracle.priceHistory) < 2 THEN getDefaultData
    ELSE LET probabilities == calculateProbabilities(momentum, volatility)
         IN [currentPrice |-> oracle.currentPrice, momentum |-> momentum,
             volatility |-> volatility, probUp |-> probabilities.probUp,
             probDown |-> probabilities.probDown,
             confidence |-> probabilities.confidence,
             sources |-> oracle.activeSources]

\* a caller takes a snapshot
GetOracleData(momentum, volatility) ==
    /\ snapshot' = <<getOracleData(momentum, volatility)>>
    /\ UNCHANGED <<now, isRunning, enableDynamicSizing, softwarePrices, polymarketPrices,
                   orderBooks, lastTradeTime, tradeCounter, loop, trades, activeTrades,
                   orders, passes, pnl, logged, lastSubmit, closeCalls, sent,
                   startup, feeds, limiter, oracle, lastCheck,
                   ticks, server>>

(***************************************************************************)
(* Calls of the OrderBookTracker                                           *)
(***************************************************************************)
BookHorizon == 12
UpdateWindow == 1

\* the depths an update can carry for one side: prices are positive, sizes may be 0
BidSides == {<<>>, <<Level(690, 100)>>, <<Level(690, 4), Level(680, 0)>>}
AskSides == {<<>>,
             <<Level(1000, 10), Level(1020, 10)>>,
             <<Level(700, 100)>>,
             <<Level(700, 0), Level(710, 100)>>,
             <<Level(700, 0)>>,
             <<Level(800, 3), Level(900, 5)>>}
Amounts == {QZero, tradeAmount, QInt(15)}

\* the warnings collected by checkLiquidity(tokenId, side, amount), in order
liquidityWarnings(books, tokenId, side, amount, t) ==
    LET book == books[tokenId]
    IN IF book = NoBook THEN <<"no order book">>
       ELSE LET early == (IF isStale(books, tokenId, t) THEN <<"stale">> ELSE <<>>)
                         \o (IF QGt(book.spreadPercent, maxSpread)
                             THEN <<"high spread">> ELSE <<>>)
                levels == IF side = "BUY" THEN book.asks ELSE book.bids
            IN IF Len(levels) = 0 THEN early \o <<"no levels">>
               ELSE LET w == walkLevels(levels, Len(levels), amount)
                        check == checkLiquidity(books, tokenId, side, amount)
                    IN early
                       \o (IF ~check.sufficient /\ QLt(w[1], check.requiredLiquidity)
                           THEN <<"low liquidity">> ELSE <<>>)
                       \o (IF ~check.sufficient /\ QGt(w[3], QZero)
                           THEN <<"cannot fill">> ELSE <<>>)
                       \o (IF QGt(check.estimatedSlippage, Q(1, 100))
                           THEN <<"high slippage">> ELSE <<>>)

\* a feed handler or another caller stores a snapshot
UpdateOrderBook(tokenId, bids, asks) ==
    /\ now <= Epoch + UpdateWindow
    /\ orderBooks' = [orderBooks EXCEPT ![tokenId] = updateOrderBook(tokenId, bids, asks, now)]
    /\ UNCHANGED <<now, isRunning, enableDynamicSizing, softwarePrices, polymarketPrices,
                   lastTradeTime, tradeCounter, loop, trades, activeTrades,
                   orders, passes, pnl, logged, lastSubmit, closeCalls, sent,
                   startup, feeds, limiter, oracle, snapshot, lastCheck,
                   ticks, server>>

\* a caller checks the liquidity of one side
CheckLiquidity(tokenId, side, amount) ==
    /\ lastCheck' = <<[tokenId |-> tokenId, side |-> side, amount |-> amount,
                       check |-> checkLiquidity(orderBooks, tokenId, side, amount),
                       warnings |-> liquidityWarnings(orderBooks, tokenId, side, amount,
                                                      now)]>>
    /\ UNCHANGED <<now, isRunning, enableDynamicSizing, softwarePrices, polymarketPrices,
                   orderBooks, lastTradeTime, tradeCounter, loop, trades, activeTrades,
                   orders, passes, pnl, logged, lastSubmit, closeCalls, sent,
                   startup, feeds, limiter, oracle, snapshot,
                   ticks, server>>

(***************************************************************************)
(* Calls of the PnLTracker                                                 *)
(***************************************************************************)
MaxLedger == 4

\* the profit or loss of a recorded result, in dollars
PnLs == {Q(-3, 2), Q(-1, 2), QZero, Q(1, 2), QInt(2)}

\* a TradeResult with the given pnl
resultWith(n, x) ==
    [tradeId |-> n, tokenType |-> "UP", pnl |-> x,
     exitReason |-> IF QGt(x, QZero) THEN "take_profit" ELSE "stop_loss"]

\* any caller records a result
RecordTrade(x) ==
    /\ Len(pnl.trades) < MaxLedger
    /\ pnl' = recordTrade(pnl, resultWith(Len(pnl.trades) + 1, x))
    /\ UNCHANGED <<now, isRunning, enableDynamicSizing, softwarePrices, polymarketPrices,
                   orderBooks, lastTradeTime, tradeCounter, loop, trades, activeTrades,
                   orders, passes, logged, lastSubmit, closeCalls, sent,
                   startup, feeds, limiter, oracle, snapshot, lastCheck,
                   ticks, server>>

(***************************************************************************)
(* The scheduling of the trading loop (startImmediateTrading).  Every      *)
(* setTimeout and every invocation of immediateTradingLoop has a slot of   *)
(* its own; checkTradeOpportunity and executeTrade are one awaited call    *)
(* each.  Times are in seconds.                                            *)
(***************************************************************************)
MaxTicks == 2        \* timers and invocations of immediateTradingLoop alive together
TickRuns == 4        \* invocations that pass the running check
TickHorizon == 3     \* seconds explored by SpecTicks

NoTick == [pc |-> "free", due |-> 0]

NewTicks == [slots |-> [i \in 1..MaxTicks |-> NoTick], begun |-> 0, executed |-> 0]

\* setTimeout(immediateTradingLoop, 1000) at time t
setTimeoutLoop(tk, t) ==
    LET i == CHOOSE i \in 1..MaxTicks :
                 /\ tk.slots[i].pc = "free"
                 /\ \A j \in 1..(i - 1) : tk.slots[j].pc # "free"
    IN [tk EXCEPT !.slots[i] = [pc |-> "timer", due |-> t + 1]]

\* an invocation that arms the next timer before its first await
immediateTradingLoopArmsFirst(tk, i, running, t) ==
    IF ~running THEN [tk EXCEPT !.slots[i] = NoTick]
    ELSE setTimeoutLoop([tk EXCEPT !.slots[i] = [pc |-> "check", due |-> 0],
                                   !.begun = @ + 1], t)

\* immediateTradingLoop up to its first await: it returns when the bot is not
\* running and awaits checkTradeOpportunity otherwise
immediateTradingLoop(tk, i, running, t) ==
    IF ~running THEN [tk EXCEPT !.slots[i] = NoTick]
    ELSE [tk EXCEPT !.slots[i] = [pc |-> "check", due |-> 0], !.begun = @ + 1]

\* start() with sufficient balances and a market found, from its last wait on:
\* the running flag is set, the interval loops are started and
\* startImmediateTrading runs the first invocation at once.  The connect() calls
\* made before the flag was set created no socket.
StartImmediateTrading ==
    /\ startup.pc = "new"
    /\ isRunning' = TRUE
    /\ startup' = [pc |-> "done", due |-> 0, check |-> "sufficient", loops |-> AllLoops]
    /\ ticks' = immediateTradingLoop(ticks, 1, TRUE, now)
    /\ UNCHANGED <<now, enableDynamicSizing, softwarePrices, polymarketPrices,
                   orderBooks, lastTradeTime, tradeCounter, loop, trades, activeTrades,
                   orders, passes, pnl, logged, lastSubmit, closeCalls, sent,
                   feeds, limiter, oracle, snapshot, lastCheck, server>>

\* the timer of slot i fires
LoopTimerFires(i) ==
    /\ ticks.slots[i].pc = "timer"
    /\ now >= ticks.slots[i].due
    /\ ticks.begun < TickRuns
    /\ ticks' = immediateTradingLoop(ticks, i, isRunning, now)
    /\ UNCHANGED <<now, isRunning, enableDynamicSizing, softwarePrices, polymarketPrices,
                   orderBooks, lastTradeTime, tradeCounter, loop, trades, activeTrades,
                   orders, passes, pnl, logged, lastSubmit, closeCalls, sent,
                   startup, feeds, limiter, oracle, snapshot, lastCheck, server>>

\* checkTradeOpportunity settles: with an opportunity executeTrade is awaited;
\* with none, or with an error that the catch block logs, the next timer is armed
OpportunityReturns(i, found) ==
    /\ ticks.slots[i].pc = "check"
    /\ ticks' = IF found
                THEN [ticks EXCEPT !.slots[i].pc = "trade", !.executed = @ + 1]
                ELSE setTimeoutLoop([ticks EXCEPT !.slots[i] = NoTick], now)
    /\ UNCHANGED <<now, isRunning, enableDynamicSizing, softwarePrices, polymarketPrices,
                   orderBooks, lastTradeTime, tradeCounter, loop, trades, activeTrades,
                   orders, passes, pnl, logged, lastSubmit, closeCalls, sent,
                   startup, feeds, limiter, oracle, snapshot, lastCheck, server>>

\* executeTrade settles, resolved or rejected: the next timer is armed
ExecuteTradeReturns(i) ==
    /\ ticks.slots[i].pc = "trade"
    /\ ticks' = setTimeoutLoop([ticks EXCEPT !.slots[i] = NoTick], now)
    /\ UNCHANGED <<now, isRunning, enableDynamicSizing, softwarePrices, polymarketPrices,
                   orderBooks, lastTradeTime, tradeCounter, loop, trades, activeTrades,
                   orders, passes, pnl, logged, lastSubmit, closeCalls, sent,
                   startup, feeds, limiter, oracle, snapshot, lastCheck, server>>

(***************************************************************************)
(* The OracleServer over its BitcoinOracle.  Times are in the ticks of the *)
(* oracle; the waits of waitForData and the number of price points it      *)
(* waits for are scaled to the oracle's history capacity.                  *)
(***************************************************************************)
ServerHorizon == 3

broadcastFrequencyMs == 1
waitTimeoutMs == 2       \* waitForData(10000)
waitPollMs == 1          \* setTimeout(resolve, 500)
initialPoints == 2       \* getHistoryLength() >= 5

Clients == {"client_1"}

\* stopped: stop() has been called (history)
NewServer ==
    [pc |-> "new",
     wss |-> "null",
     clients |-> {},
     broadcastInterval |-> 0,
     startTime |-> 0,
     wake |-> 0,
     stopped |-> FALSE]

\* the rest of start() after waitForData: the WebSocketServer is created and the
\* broadcast interval is set
listen(srv, t) ==
    [srv EXCEPT !.pc = "started", !.wss = "listening",
                !.broadcastInterval = t + broadcastFrequencyMs]

\* one turn of the loop of waitForData at time t, and the rest of start() when
\* the loop ends, with the data or on the timeout
waitForData(srv, orc, t) ==
    IF t - srv.startTime < waitTimeoutMs /\ Len(orc.priceHistory) < initialPoints
    THEN [srv EXCEPT !.pc = "wait", !.wake = t + waitPollMs]
    ELSE listen(srv, t)

\* oracle.start() has resolved and start() has not yet gone on
startResumes ==
    /\ server.pc = "oracle"
    /\ \A c \in 1..MaxCycles : ~oracle.cycles[c].initial

\* start() up to its first await: oracle.start() sets the oracle's flag and awaits
\* the initial fetch
ServerStart ==
    /\ server.pc = "new"
    /\ ~server.stopped
    /\ server' = [server EXCEPT !.pc = "oracle"]
    /\ oracle' = beginCycle([oracle EXCEPT !.isRunning = TRUE], 1, TRUE)
    /\ UNCHANGED <<now, isRunning, enableDynamicSizing, softwarePrices, polymarketPrices,
                   orderBooks, lastTradeTime, tradeCounter, loop, trades, activeTrades,
                   orders, passes, pnl, logged, lastSubmit, closeCalls, sent,
                   startup, feeds, limiter, snapshot, lastCheck, ticks>>

\* await oracle.start() returns: waitForData takes its start time and runs its
\* first turn
OracleStartReturns ==
    /\ startResumes
    /\ server' = waitForData([server EXCEPT !.startTime = now], oracle, now)
    /\ UNCHANGED <<now, isRunning, enableDynamicSizing, softwarePrices, polymarketPrices,
                   orderBooks, lastTradeTime, tradeCounter, loop, trades, activeTrades,
                   orders, passes, pnl, logged, lastSubmit, closeCalls, sent,
                   startup, feeds, limiter, oracle, snapshot, lastCheck, ticks>>

\* the sleep of waitForData is over: its next turn
WaitWakes ==
    /\ server.pc = "wait"
    /\ now >= server.wake
    /\ server' = waitForData(server, oracle, now)
    /\ UNCHANGED <<now, isRunning, enableDynamicSizing, softwarePrices, polymarketPrices,
                   orderBooks, lastTradeTime, tradeCounter, loop, trades, activeTrades,
                   orders, passes, pnl, logged, lastSubmit, closeCalls, sent,
                   startup, feeds, limiter, oracle, snapshot, lastCheck, ticks>>

\* a client connects to the listening server
ClientConnects(id) ==
    /\ ~startResumes
    /\ server.wss = "listening"
    /\ id \notin server.clients
    /\ server' = [server EXCEPT !.clients = @ \cup {id}]
    /\ UNCHANGED <<now, isRunning, enableDynamicSizing, softwarePrices, polymarketPrices,
                   orderBooks, lastTradeTime, tradeCounter, loop, trades, activeTrades,
                   orders, passes, pnl, logged, lastSubmit, closeCalls, sent,
                   startup, feeds, limiter, oracle, snapshot, lastCheck, ticks>>

\* the socket of a client closes or fails
ClientLeaves(id) ==
    /\ ~startResumes
    /\ id \in server.clients
    /\ server' = [server EXCEPT !.clients = @ \ {id}]
    /\ UNCHANGED <<now, isRunning, enableDynamicSizing, softwarePrices, polymarketPrices,
                   orderBooks, lastTradeTime, tradeCounter, loop, trades, activeTrades,
                   orders, passes, pnl, logged, lastSubmit, closeCalls, sent,
                   startup, feeds, limiter, oracle, snapshot, lastCheck, ticks>>

\* the broadcast interval fires: broadcast() sends to the open clients
BroadcastFires ==
    /\ ~startResumes
    /\ server.broadcastInterval # 0
    /\ now >= server.broadcastInterval
    /\ server' = [server EXCEPT !.broadcastInterval = now + broadcastFrequencyMs]
    /\ UNCHANGED <<now, isRunning, enableDynamicSizing, softwarePrices, polymarketPrices,
                   orderBooks, lastTradeTime, tradeCounter, loop, trades, activeTrades,
                   orders, passes, pnl, logged, lastSubmit, closeCalls, sent,
                   startup, feeds, limiter, oracle, snapshot, lastCheck, ticks>>

\* stop(): the broadcast interval is cleared, the clients are closed and
\* forgotten, the WebSocketServer is closed and oracle.stop() clears the oracle's
\* interval and resets its flag
ServerStop ==
    /\ ~startResumes
    /\ ~server.stopped
    /\ server' = [server EXCEPT !.broadcastInterval = 0, !.clients = {},
                                !.wss = "null", !.stopped = TRUE]
    /\ oracle' = [oracle EXCEPT !.timers = IF oracle.updateInterval = 0 THEN @
                                           ELSE [@ EXCEPT ![oracle.updateInterval] = 0],
                                !.updateInterval = 0,
                                !.isRunning = FALSE]
    /\ UNCHANGED <<now, isRunning, enableDynamicSizing, softwarePrices, polymarketPrices,
                   orderBooks, lastTradeTime, tradeCounter, loop, trades, activeTrades,
                   orders, passes, pnl, logged, lastSubmit, closeCalls, sent,
                   startup, feeds, limiter, snapshot, lastCheck, ticks>>

\* the clock of SpecServer: start() goes on as soon as oracle.start() has
\* resolved, and an oracle timer that is due fires before time moves on
ServerTick ==
    /\ ~startResumes
    /\ \A t \in 1..MaxTimers :
          \/ oracle.timers[t] = 0
          \/ now < oracle.timers[t]
          \/ oracle.begun >= OracleCycles
          \/ \A c \in 1..MaxCycles : oracle.cycles[c].pc # "free"
    /\ AdvanceTime(ServerHorizon)

\* what an exchange answers in SpecOracle: its price, a price of 0, or an error
quote(x) == CASE x = "binance" -> 100 [] x = "coinbase" -> 101 [] OTHER -> 1000000

(***************************************************************************)
(* Initial states                                                          *)
(***************************************************************************)
\* the collaborators as their constructors leave them: a limiter with the
\* default configuration and no caller, an oracle that is stopped
CollaboratorsNew ==
    /\ limiter = NewLimiter([maxRetries |-> 4, baseDelayMs |-> 1, maxDelayMs |-> 16])
    /\ oracle = NewOracle
    /\ snapshot = <<>>
    /\ lastCheck = <<>>
    /\ ticks = NewTicks
    /\ server = NewServer

\* the fields as the constructor leaves them
Constructed ==
    /\ lastTradeTime = 0
    /\ tradeCounter = 0
    /\ trades = [k \in 1..MaxTrades |-> NoTrade]
    /\ activeTrades = <<>>
    /\ orders = [o \in OrderIds |-> "none"]
    /\ passes = [p \in 1..MaxPasses |-> NoPass]
    /\ pnl = [trades |-> <<>>, runningPnL |-> QZero, peakPnL |-> QZero,
              maxDrawdown |-> QZero]
    /\ logged = {}
    /\ lastSubmit = -1
    /\ closeCalls = [k \in 1..MaxTrades |-> 0]
    /\ sent = <<>>
    /\ CollaboratorsNew

\* a running bot: start() is through, its loops are started and both
\* connections are open
Started ==
    /\ startup = [pc |-> "done", due |-> 0, check |-> "sufficient", loops |-> AllLoops]
    /\ feeds = [f \in Feeds |-> [state |-> "open", retry |-> -1, attempts |-> 1]]

\* both feeds have just delivered a payload: the oracle msg, and for UP the
\* payload up (a price, bids and asks)
FeedsDelivered(msg, up) ==
    /\ softwarePrices = onOracleMessage(msg, now)
    /\ polymarketPrices =
           [t \in Tokens |-> IF t = "UP"
                             THEN marketPriceAfter(QZero, up.price, up.bids, up.asks, now)
                             ELSE QZero]
    /\ orderBooks =
           [t \in Tokens |-> IF t = "UP"
                             THEN bookAfter(NoBook, "UP", up.bids, up.asks, now)
                             ELSE NoBook]

\* the oracle 75/25, and for UP a book with bid 0.69 and ask 0.70
FeedsFresh ==
    FeedsDelivered([prob_up |-> 75, prob_down |-> 25],
                   [price |-> QZero, bids |-> <<Level(690, 100)>>,
                    asks |-> <<Level(700, 100)>>])

\* feed states the trading loop starts from: the one of FeedsFresh (market at
\* 0.695), a market at exactly 0.70, one at 0.984 and one at 0.012
LoopFeeds ==
    {[msg |-> [prob_up |-> 75, prob_down |-> 25],
      up |-> [price |-> QZero, bids |-> <<Level(690, 100)>>,
              asks |-> <<Level(700, 100)>>]],
     [msg |-> [prob_up |-> 75, prob_down |-> 25],
      up |-> [price |-> Milli(700), bids |-> <<>>, asks |-> <<Level(700, 100)>>]],
     [msg |-> [prob_up |-> 100, prob_down |-> 0],
      up |-> [price |-> QZero, bids |-> <<Level(983, 100)>>,
              asks |-> <<Level(985, 100)>>]],
     [msg |-> [prob_up |-> 28, prob_down |-> 72],
      up |-> [price |-> Milli(12), bids |-> <<>>, asks |-> <<Level(12, 2000)>>]]}

(***************************************************************************)
(* SpecLoop: the trading loop from the start of the bot, with the venue's  *)
(* handling of the entry orders and the clock.                             *)
(***************************************************************************)
InitLoop ==
    /\ now = Epoch
    /\ isRunning = TRUE
    /\ enableDynamicSizing \in BOOLEAN
    /\ \E f \in LoopFeeds : FeedsDelivered(f.msg, f.up)
    /\ Constructed
    /\ Started
    /\ loop = [pc |-> "idle", due |-> Epoch, oracleAge |-> 0, opp |-> NoOpp]

NextLoop ==
    \/ TradingLoopTick
    \/ BalanceFails
    \/ \E usdc \in Balances : BalanceReturns(usdc)
    \/ \E res \in {"open", "filled"} : BuyReturns(res)
    \/ BuyFails
    \/ SettleDone
    \/ \E ok \in BOOLEAN : StatusReturns(ok)
    \/ \E res \in {"open", "filled"} : TakeProfitReturns(res)
    \/ TakeProfitFails
    \/ \E res \in {"open", "filled"} : StopLossReturns(res)
    \/ StopLossFails
    \/ CleanupSweep
    \/ Stop
    \/ \E k \in 1..MaxTrades, how \in {"filled", "cancelled"} : OrderLeaves(<<k, "buy">>, how)
    \/ AdvanceTime(LoopHorizon)

SpecLoop == InitLoop /\ [][NextLoop]_vars

(***************************************************************************)
(* SpecLowPrice: the trading loop of SpecLoop on a market whose UP token   *)
(* trades at one tick (0.01) or below it (0.008), with the oracle at 0.28. *)
(***************************************************************************)
LowPriceFeeds ==
    {[msg |-> [prob_up |-> 28, prob_down |-> 72],
      up |-> [price |-> Milli(10), bids |-> <<>>, asks |-> <<Level(10, 2000)>>]],
     [msg |-> [prob_up |-> 28, prob_down |-> 72],
      up |-> [price |-> Milli(8), bids |-> <<>>, asks |-> <<Level(8, 3000)>>]]}

InitLowPrice ==
    /\ now = Epoch
    /\ isRunning = TRUE
    /\ enableDynamicSizing = FALSE
    /\ \E f \in LowPriceFeeds : FeedsDelivered(f.msg, f.up)
    /\ Constructed
    /\ Started
    /\ loop = [pc |-> "idle", due |-> Epoch, oracleAge |-> 0, opp |-> NoOpp]

SpecLowPrice == InitLowPrice /\ [][NextLoop]_vars

(***************************************************************************)
(* Spec: the order monitor.  The trading loop has opened MaxTrades trades, *)
(* one per cooldown, the last one just now; their exit orders rest open.   *)
(* The order monitor, the cleanup sweep and the venue's handling of the    *)
(* exit orders run from there, within the second that follows.             *)
(***************************************************************************)
openedAt(k) == Epoch - tradeCooldown * (MaxTrades - k)

Init ==
    /\ now = Epoch
    /\ isRunning = TRUE
    /\ enableDynamicSizing = FALSE
    /\ FeedsFresh
    /\ Started
    /\ CollaboratorsNew
    /\ lastTradeTime = Epoch - 3
    /\ lastSubmit = Epoch - 3
    /\ tradeCounter = MaxTrades
    /\ trades = [k \in 1..MaxTrades |->
                    newTrade(k, scanTokens(QInt(600), 0, now), openedAt(k))]
    /\ activeTrades = [k \in 1..MaxTrades |-> k]
    /\ orders = [o \in OrderIds |-> IF o[2] = "buy" THEN "filled" ELSE "open"]
    /\ passes = [p \in 1..MaxPasses |-> NoPass]
    /\ pnl = [trades |-> <<>>, runningPnL |-> QZero, peakPnL |-> QZero,
              maxDrawdown |-> QZero]
    /\ logged = {}
    /\ closeCalls = [k \in 1..MaxTrades |-> 0]
    /\ sent = [i \in 1..(3 * MaxTrades) |->
                  LET k == ((i - 1) \div 3) + 1
                      opp == scanTokens(QInt(600), 0, now)
                  IN CASE i % 3 = 1 -> buyOrder(k, opp)
                       [] i % 3 = 2 -> takeProfitOrder(k, opp)
                       [] OTHER -> stopLossOrder(k, opp)]
    /\ loop = [pc |-> "idle", due |-> Epoch + 1, oracleAge |-> 0, opp |-> NoOpp]

Next ==
    \/ \E p \in 1..MaxPasses : MonitorFires(p)
    \/ \E p \in 1..MaxPasses, ok \in BOOLEAN : PassTakeProfitStatus(p, ok)
    \/ \E p \in 1..MaxPasses, ok \in BOOLEAN : PassStopLossStatus(p, ok)
    \/ \E p \in 1..MaxPasses, ok \in BOOLEAN : PassStopLossOpen(p, ok)
    \/ \E p \in 1..MaxPasses, ok \in BOOLEAN : PassTakeProfitOpen(p, ok)
    \/ \E p \in 1..MaxPasses, ok \in BOOLEAN : PassCancelDone(p, ok)
    \/ \E p \in 1..MaxPasses : CancelReachesVenue(p)
    \/ CleanupSweep
    \/ \E k \in 1..MaxTrades, x \in {"tp", "sl"} : OrderLeaves(<<k, x>>, "filled")

Spec == Init /\ [][Next]_vars

(***************************************************************************)
(* SpecSweep: the cleanup sweep over time.  From the state of Init, one    *)
(* order monitor pass at a time, the sweep, stop() and the clock run until *)
(* every trade is older than maxTradeAge.  The sweep is a setInterval      *)
(* callback and the clock is the wall clock: neither can be postponed      *)
(* for ever, which is the fairness assumed.                                *)
(***************************************************************************)
SweepHorizon == 3

NextSweep ==
    \/ MonitorFires(1)
    \/ \E ok \in BOOLEAN : PassTakeProfitStatus(1, ok)
    \/ \E ok \in BOOLEAN : PassStopLossStatus(1, ok)
    \/ \E ok \in BOOLEAN : PassStopLossOpen(1, ok)
    \/ \E ok \in BOOLEAN : PassTakeProfitOpen(1, ok)
    \/ \E ok \in BOOLEAN : PassCancelDone(1, ok)
    \/ CancelReachesVenue(1)
    \/ CleanupSweep
    \/ Stop
    \/ \E k \in 1..MaxTrades, x \in {"tp", "sl"} : OrderLeaves(<<k, x>>, "filled")
    \/ AdvanceTime(SweepHorizon)

SpecSweep ==
    /\ Init
    /\ [][NextSweep]_vars
    /\ WF_vars(CleanupSweep)
    /\ WF_vars(AdvanceTime(SweepHorizon))

(***************************************************************************)
(* SpecStart: start() and the steady state.  The bot is either newly       *)
(* constructed, with start() still to be called, or running with its feeds *)
(* delivering; start(), the monitoring loop, the evaluation ticks of the   *)
(* trading loop, stop() and the clock run from there.                      *)
(***************************************************************************)
StartHorizon == 7

InitStart ==
    /\ now = Epoch
    /\ enableDynamicSizing = FALSE
    /\ Constructed
    /\ \/ /\ isRunning = FALSE
          /\ softwarePrices = [UP |-> QZero, DOWN |-> QZero, lastUpdate |-> 0]
          /\ polymarketPrices = [t \in Tokens |-> QZero]
          /\ orderBooks = [t \in Tokens |-> NoBook]
          /\ startup = NotStarted
          /\ feeds = [f \in Feeds |-> NoSocket]
          /\ loop = [pc |-> "stopped", due |-> 0, oracleAge |-> 0, opp |-> NoOpp]
       \/ /\ isRunning = TRUE
          /\ FeedsFresh
          /\ Started
          /\ loop = [pc |-> "idle", due |-> Epoch, oracleAge |-> 0, opp |-> NoOpp]

NextStart ==
    \/ StartCalled
    \/ \E sufficient \in BOOLEAN : StartBalancesChecked(sufficient)
    \/ StartMarketFails
    \/ StartConnects
    \/ StartCompletes
    \/ \E sufficient \in BOOLEAN : MonitoringTick(sufficient)
    \/ TradingLoopTick
    \/ BalanceFails
    \/ \E usdc \in Balances : BalanceReturns(usdc)
    \/ Stop
    \/ AdvanceTime(StartHorizon)

SpecStart == InitStart /\ [][NextStart]_vars

(***************************************************************************)
(* SpecFeeds: the two connections of a running bot.  They close and are    *)
(* reopened by their timers until stop().  A timer that is due fires and   *)
(* the clock advances: the fairness assumed.                               *)
(***************************************************************************)
FeedHorizon == 11

InitFeeds ==
    /\ now = Epoch
    /\ isRunning = TRUE
    /\ enableDynamicSizing = FALSE
    /\ FeedsFresh
    /\ Constructed
    /\ Started
    /\ loop = [pc |-> "idle", due |-> Epoch, oracleAge |-> 0, opp |-> NoOpp]

NextFeeds ==
    \/ \E f \in Feeds : SocketCloses(f, FeedHorizon)
    \/ \E f \in Feeds : ReconnectFires(f)
    \/ Stop
    \/ AdvanceTime(FeedHorizon)

SpecFeeds ==
    /\ InitFeeds
    /\ [][NextFeeds]_vars
    /\ \A f \in Feeds : WF_vars(ReconnectFires(f))
    /\ WF_vars(AdvanceTime(FeedHorizon))

(***************************************************************************)
(* A bot that is constructed and not started: the state of the bot while   *)
(* one of its collaborators is examined on its own.                        *)
(***************************************************************************)
NewBot ==
    /\ now = Epoch
    /\ isRunning = FALSE
    /\ enableDynamicSizing = FALSE
    /\ softwarePrices = [UP |-> QZero, DOWN |-> QZero, lastUpdate |-> 0]
    /\ polymarketPrices = [t \in Tokens |-> QZero]
    /\ orderBooks = [t \in Tokens |-> NoBook]
    /\ startup = NotStarted
    /\ feeds = [f \in Feeds |-> NoSocket]
    /\ loop = [pc |-> "stopped", due |-> 0, oracleAge |-> 0, opp |-> NoOpp]
    /\ lastTradeTime = 0
    /\ tradeCounter = 0
    /\ trades = [k \in 1..MaxTrades |-> NoTrade]
    /\ activeTrades = <<>>
    /\ orders = [o \in OrderIds |-> "none"]
    /\ passes = [p \in 1..MaxPasses |-> NoPass]
    /\ pnl = [trades |-> <<>>, runningPnL |-> QZero, peakPnL |-> QZero,
              maxDrawdown |-> QZero]
    /\ logged = {}
    /\ lastSubmit = -1
    /\ closeCalls = [k \in 1..MaxTrades |-> 0]
    /\ sent = <<>>

(***************************************************************************)
(* SpecLimiter: a RateLimiter and MaxCallers concurrent calls of           *)
(* executeWithRetry, under the same key or under different keys, with      *)
(* thunks that succeed or fail at every attempt.                           *)
(***************************************************************************)
InitLimiter ==
    /\ NewBot
    /\ oracle = NewOracle
    /\ snapshot = <<>>
    /\ lastCheck = <<>>
    /\ ticks = NewTicks
    /\ server = NewServer
    /\ \E config \in Configs : limiter = NewLimiter(config)

NextLimiter ==
    \/ \E c \in 1..MaxCallers, key \in Keys : ExecuteWithRetry(c, key)
    \/ \E c \in 1..MaxCallers : SlotWakes(c)
    \/ \E c \in 1..MaxCallers : ThunkSucceeds(c)
    \/ \E c \in 1..MaxCallers, kind \in ErrorKinds : ThunkFails(c, kind)
    \/ \E c \in 1..MaxCallers : BackoffWakes(c)
    \/ LimiterTick

SpecLimiter == InitLimiter /\ [][NextLimiter]_vars

(***************************************************************************)
(* SpecOracle: a BitcoinOracle with start(), stop(), its interval timers    *)
(* and fetch cycles that may overlap; every exchange answers its price, a  *)
(* price of 0 or an error.                                                 *)
(***************************************************************************)
InitOracle ==
    /\ NewBot
    /\ CollaboratorsNew

NextOracle ==
    \/ OracleStart
    \/ OracleStop
    \/ \E t \in 1..MaxTimers : TimerFires(t)
    \/ \E c \in 1..MaxCycles, x \in Exchanges :
          \E r \in {-1, 0, quote(x)} : SourceResponds(c, x, r)
    \/ OracleTick

SpecOracle == InitOracle /\ [][NextOracle]_vars

(***************************************************************************)
(* SpecSnapshot: getOracleData() on a running oracle between fetch cycles, *)
(* for every history length up to the capacity, every set of active        *)
(* sources the last cycle can have left, and a grid of momentum and        *)
(* volatility values.                                                      *)
(***************************************************************************)
\* the history after n successful cycles, one per period, the last one at Epoch
historyOf(n) == [i \in 1..n |-> [price |-> quote("coinbase"), timestamp |-> Epoch - n + i]]

InitSnapshot ==
    /\ NewBot
    /\ limiter = NewLimiter([maxRetries |-> 4, baseDelayMs |-> 1, maxDelayMs |-> 16])
    /\ snapshot = <<>>
    /\ lastCheck = <<>>
    /\ ticks = NewTicks
    /\ server = NewServer
    /\ \E n \in 0..maxHistorySize, active \in SUBSET Exchanges :
          /\ n = 0 => active = {}
          /\ oracle = [NewOracle EXCEPT !.isRunning = TRUE,
                                        !.updateInterval = 1,
                                        !.timers = [t \in 1..MaxTimers |->
                                                       IF t = 1 THEN Epoch + updateFrequencyMs
                                                       ELSE 0],
                                        !.priceHistory = historyOf(n),
                                        !.appended = historyOf(n),
                                        !.currentPrice = IF n = 0 THEN 0
                                                         ELSE quote("coinbase"),
                                        !.activeSources = active,
                                        !.begun = n + 1]

NextSnapshot ==
    \E momentum \in Momenta, volatility \in Volatilities :
        GetOracleData(momentum, volatility)

SpecSnapshot == InitSnapshot /\ [][NextSnapshot]_vars

(***************************************************************************)
(* SpecBook: snapshots stored for both instruments during the first ticks, *)
(* then time passing beyond the staleness threshold.                       *)
(***************************************************************************)
InitBook ==
    /\ NewBot
    /\ CollaboratorsNew

NextBook ==
    \/ \E tokenId \in Tokens, bids \in BidSides, asks \in AskSides :
          UpdateOrderBook(tokenId, bids, asks)
    \/ AdvanceTime(BookHorizon)

SpecBook == InitBook /\ [][NextBook]_vars

(***************************************************************************)
(* SpecLiquidity: checkLiquidity() on the books that SpecBook can leave:   *)
(* no snapshot, or a snapshot of UP with any of the depths, fresh, at the  *)
(* staleness threshold or one tick beyond it.                              *)
(***************************************************************************)
\* a constructed bot whose tracker holds the given snapshots
BotWithBooks(books) ==
    /\ now = Epoch
    /\ isRunning = FALSE
    /\ enableDynamicSizing = FALSE
    /\ softwarePrices = [UP |-> QZero, DOWN |-> QZero, lastUpdate |-> 0]
    /\ polymarketPrices = [t \in Tokens |-> QZero]
    /\ orderBooks = books
    /\ startup = NotStarted
    /\ feeds = [f \in Feeds |-> NoSocket]
    /\ loop = [pc |-> "stopped", due |-> 0, oracleAge |-> 0, opp |-> NoOpp]
    /\ lastTradeTime = 0
    /\ tradeCounter = 0
    /\ trades = [k \in 1..MaxTrades |-> NoTrade]
    /\ activeTrades = <<>>
    /\ orders = [o \in OrderIds |-> "none"]
    /\ passes = [p \in 1..MaxPasses |-> NoPass]
    /\ pnl = [trades |-> <<>>, runningPnL |-> QZero, peakPnL |-> QZero,
              maxDrawdown |-> QZero]
    /\ logged = {}
    /\ lastSubmit = -1
    /\ closeCalls = [k \in 1..MaxTrades |-> 0]
    /\ sent = <<>>

BookAges == {0, priceStaleMs, priceStaleMs + 1}

InitLiquidity ==
    /\ CollaboratorsNew
    /\ \/ BotWithBooks([x \in Tokens |-> NoBook])
       \/ \E bids \in BidSides, asks \in AskSides, age \in BookAges :
             BotWithBooks([x \in Tokens |->
                             IF x = "UP" THEN updateOrderBook(x, bids, asks, Epoch - age)
                             ELSE NoBook])

NextLiquidity ==
    \E tokenId \in Tokens, side \in {"BUY", "SELL"}, amount \in Amounts :
        CheckLiquidity(tokenId, side, amount)

SpecLiquidity == InitLiquidity /\ [][NextLiquidity]_vars

(***************************************************************************)
(* SpecLedger: every sequence of up to MaxLedger recordTrade calls with    *)
(* gains, losses and results of 0.                                         *)
(***************************************************************************)
InitLedger ==
    /\ NewBot
    /\ CollaboratorsNew

NextLedger == \E x \in PnLs : RecordTrade(x)

SpecLedger == InitLedger /\ [][NextLedger]_vars

(***************************************************************************)
(* SpecTicks: a start() that passes its checks, the timers and the awaited *)
(* calls of the trading loop, stop() and the clock.                        *)
(***************************************************************************)
InitTicks ==
    /\ NewBot
    /\ CollaboratorsNew

NextTicks ==
    \/ StartImmediateTrading
    \/ \E i \in 1..MaxTicks : LoopTimerFires(i)
    \/ \E i \in 1..MaxTicks, found \in BOOLEAN : OpportunityReturns(i, found)
    \/ \E i \in 1..MaxTicks : ExecuteTradeReturns(i)
    \/ Stop
    \/ AdvanceTime(TickHorizon)

SpecTicks == InitTicks /\ [][NextTicks]_vars

(***************************************************************************)
(* SpecServer: an OracleServer from its construction: start(), the fetch   *)
(* cycles of its oracle with every exchange answering, the waits of        *)
(* waitForData, a client, the broadcast timer, one stop() at any moment,   *)
(* and the clock.                                                          *)
(***************************************************************************)
InitServer ==
    /\ NewBot
    /\ CollaboratorsNew

NextServer ==
    \/ ServerStart
    \/ OracleStartReturns
    \/ WaitWakes
    \/ ~startResumes /\ \E t \in 1..MaxTimers : TimerFires(t)
    \/ ~startResumes /\ \E c \in 1..MaxCycles, x \in Exchanges :
                            SourceResponds(c, x, quote(x))
    \/ \E id \in Clients : ClientConnects(id)
    \/ \E id \in Clients : ClientLeaves(id)
    \/ BroadcastFires
    \/ ServerStop
    \/ ServerTick

SpecServer == InitServer /\ [][NextServer]_vars

(***************************************************************************)
(* SpecScan: evaluation ticks of the trading loop over the states the      *)
(* feeds can have left behind.  Each feed has delivered one payload, at    *)
(* Epoch or up to priceStaleMs + 1 earlier; an earlier executeTrade may    *)
(* have stamped lastTradeTime and failed at its entry order.               *)
(***************************************************************************)
\* payloads of the market feed for UP: a price (QZero: none), bids and asks
UpMessages ==
    {[price |-> QZero, bids |-> <<Level(690, 100)>>, asks |-> <<Level(700, 100)>>],
     [price |-> QZero, bids |-> <<Level(690, 100)>>,
      asks |-> <<Level(700, 8), Level(800, 100)>>],
     [price |-> QZero, bids |-> <<Level(600, 100)>>, asks |-> <<Level(700, 100)>>],
     [price |-> QZero, bids |-> <<Level(690, 100)>>, asks |-> <<Level(700, 10)>>],
     [price |-> QZero, bids |-> <<Level(690, 100)>>,
      asks |-> <<Level(700, 2), Level(750, 100)>>],
     [price |-> QZero, bids |-> <<Level(730, 100)>>, asks |-> <<Level(740, 100)>>],
     [price |-> QZero, bids |-> <<Level(740, 100)>>, asks |-> <<Level(750, 100)>>],
     [price |-> QZero, bids |-> <<>>, asks |-> <<Level(700, 100)>>],
     [price |-> Milli(700), bids |-> <<>>, asks |-> <<Level(700, 100)>>],
     [price |-> QZero, bids |-> <<Level(690, 100)>>, asks |-> <<>>],
     [price |-> QZero, bids |-> <<Level(700, 100)>>, asks |-> <<Level(690, 100)>>],
     [price |-> QZero, bids |-> <<Level(690, 100)>>, asks |-> <<Level(700, 20)>>]}

\* payloads of the market feed for DOWN (no bids and no asks: none was received)
DownMessages ==
    {[price |-> QZero, bids |-> <<>>, asks |-> <<>>],
     [price |-> QZero, bids |-> <<Level(195, 100)>>, asks |-> <<Level(200, 100)>>]}

FeedTimes == {Epoch, Epoch - priceStaleMs, Epoch - priceStaleMs - 1}

InitScan ==
    /\ now = Epoch
    /\ isRunning = TRUE
    /\ Started
    /\ CollaboratorsNew
    /\ enableDynamicSizing \in BOOLEAN
    /\ \E m \in OracleMsgs, t \in FeedTimes : softwarePrices = onOracleMessage(m, t)
    /\ \E up \in UpMessages, down \in DownMessages, t \in {Epoch, Epoch - priceStaleMs} :
          /\ polymarketPrices =
                 [x \in Tokens |->
                     LET m == IF x = "UP" THEN up ELSE down
                     IN marketPriceAfter(QZero, m.price, m.bids, m.asks, t)]
          /\ orderBooks =
                 [x \in Tokens |->
                     LET m == IF x = "UP" THEN up ELSE down
                     IN bookAfter(NoBook, x, m.bids, m.asks, t)]
    /\ \E started \in BOOLEAN :
          /\ lastTradeTime = IF started THEN Epoch - tradeCooldown + 1 ELSE 0
          /\ tradeCounter = IF started THEN 1 ELSE 0
          /\ logged = IF started THEN {<<"TRADE EXECUTION FAILED", 1>>} ELSE {}
    /\ trades = [k \in 1..MaxTrades |-> NoTrade]
    /\ activeTrades = <<>>
    /\ orders = [o \in OrderIds |-> "none"]
    /\ passes = [p \in 1..MaxPasses |-> NoPass]
    /\ pnl = [trades |-> <<>>, runningPnL |-> QZero, peakPnL |-> QZero,
              maxDrawdown |-> QZero]
    /\ lastSubmit = -1
    /\ closeCalls = [k \in 1..MaxTrades |-> 0]
    /\ sent = <<>>
    /\ loop = [pc |-> "idle", due |-> Epoch, oracleAge |-> 0, opp |-> NoOpp]

NextScan ==
    \/ TradingLoopTick
    \/ BalanceFails
    \/ \E usdc \in Balances : BalanceReturns(usdc)
    \/ AdvanceTime(ScanHorizon)

SpecScan == InitScan /\ [][NextScan]_vars


(***************************************************************************)
(* Properties of the order monitor, checked under Spec                     *)
(***************************************************************************)
\* the positions of a ledger holding a TradeResult of trade k
resultsIn(tracker, k) == {i \in 1..Len(tracker.trades) : tracker.trades[i].tradeId = k}
resultsOf(k) == resultsIn(pnl, k)

\* the pnl of the trades 1..k that are closed, each counted once
RECURSIVE closedPnl(_)
closedPnl(k) ==
    IF k = 0 THEN QZero
    ELSE QAdd(closedPnl(k - 1),
              IF trades[k].status = "closed"
              THEN tradeResult(trades[k], trades[k].exitReason).pnl
              ELSE QZero)

\* C1: whatever the interleaving of monitor passes (overlapping ones included) and
\* cleanup sweeps, the ledger holds at most one TradeResult per trade, one exactly
\* for each closed trade, and the running P&L is the sum of the closed trades' pnl,
\* each added once: a recordTradeClose on a closed trade changes nothing.
C1_ClosedAtMostOnce ==
    /\ \A k \in 1..MaxTrades :
          /\ Cardinality(resultsOf(k)) <= 1
          /\ Cardinality(resultsOf(k)) = 1 <=> trades[k].status = "closed"
    /\ pnl.runningPnL = closedPnl(MaxTrades)

\* recordTradeClose has been called twice for a trade, by overlapping passes, after
\* a sweep replaced the array: the trade has one TradeResult
C1_Witness ==
    \E k \in 1..MaxTrades :
        /\ closeCalls[k] >= 2
        /\ Cardinality(resultsOf(k)) = 1
        /\ Len(activeTrades) < MaxTrades

\* the trade of pass p ends the step closed with the given exit reason
closesWith(p, exitReason) ==
    LET k == passTrade(p)
    IN /\ trades'[k].status = "closed"
       /\ trades'[k].exitReason = exitReason

\* C2: a pass that observed the take-profit order absent and the stop-loss order
\* open cancels the stop-loss and closes the trade with exit reason take_profit; one
\* that observed the stop-loss absent and the take-profit open cancels the
\* take-profit and closes the trade with exit reason stop_loss.
C2_OcoClose ==
    [][\A p \in 1..MaxPasses, ok \in BOOLEAN :
          PassCancelDone(p, ok) =>
              /\ passes[p].pc = "slcancel" => closesWith(p, "take_profit")
              /\ passes[p].pc = "tpcancel" => closesWith(p, "stop_loss")]_vars

C4_CancelFails ==
    [][\A p \in 1..MaxPasses :
          PassCancelDone(p, FALSE) =>
              LET k == passTrade(p)
                  sibling == <<k, IF passes[p].pc = "slcancel" THEN "sl" ELSE "tp">>
              IN /\ <<"Failed to cancel order", sibling>> \in logged'
                 /\ closesWith(p, passReason(passes[p].pc))
                 /\ Cardinality(resultsIn(pnl', k)) = 1
                 /\ passes'[p].pc \in {"off", "tpq"}]_vars

(***************************************************************************)
(* Properties of the trading loop, checked under SpecLoop                  *)
(***************************************************************************)
\* the trades of the active-trade set
activeIds == {activeTrades[i] : i \in 1..Len(activeTrades)}

\* C5: the exit orders of a trade are placed, and the Trade is added to the
\* active-trade set, only when its entry order is filled; none of this happens
\* while the entry order rests open or after it was cancelled.
C5_ExitsOnlyAfterFill ==
    [][\A k \in 1..MaxTrades :
          (\/ orders[<<k, "tp">>] = "none" /\ orders'[<<k, "tp">>] # "none"
           \/ orders[<<k, "sl">>] = "none" /\ orders'[<<k, "sl">>] # "none"
           \/ k \notin activeIds /\ k \in activeIds')
              => orders[<<k, "buy">>] = "filled"]_vars

\* executeTrade ends because the placement of the take-profit or of the stop-loss
\* order failed
exitPlacementFails ==
    \/ loop.pc = "tp" /\ loop'.pc # "tp" /\ orders'[<<tradeCounter, "tp">>] = "none"
    \/ loop.pc = "sl" /\ loop'.pc # "sl" /\ orders'[<<tradeCounter, "sl">>] = "none"

tickKeeps ==
    /\ lastTradeTime' = lastTradeTime
    /\ tradeCounter' = tradeCounter
    /\ activeTrades' = activeTrades
    /\ trades' = trades
    /\ orderBooks' = orderBooks
    /\ orders' = orders
    /\ pnl' = pnl

\* C8: a tick inside the cooldown, or with a stale oracle price, ends without a
\* balance call; a tick past both gates issues the balance call; a balance below the
\* minimum ends the tick whatever the instruments look like; and every tick that
\* ends without an opportunity leaves lastTradeTime, the active-trade set, the order
\* books and the ledger as they were.
C8_GateOrder ==
    [][/\ (loop.pc = "idle" /\ loop'.pc # "idle" /\ isRunning)
              => /\ loop'.pc = "balance"
                 /\ now - lastTradeTime >= tradeCooldown
                 /\ now - softwarePrices.lastUpdate <= priceStaleMs
                 /\ tickKeeps
       /\ (loop.pc = "idle" /\ loop'.pc = "idle" /\ loop' # loop)
              => /\ (\/ now - lastTradeTime < tradeCooldown
                     \/ now - softwarePrices.lastUpdate > priceStaleMs)
                 /\ tickKeeps
       /\ \A usdc \in Balances :
              (BalanceReturns(usdc) /\ QLt(usdc, minimumBalance))
                  => loop'.pc = "idle"
       /\ (loop.pc = "balance" /\ loop'.pc = "idle") => tickKeeps]_vars

\* the bot's first tick was rejected by the oracle-staleness gate, the cooldown
\* being over: it was rescheduled without a balance call
C8_Witness ==
    /\ now = Epoch
    /\ loop.pc = "idle"
    /\ loop.due = Epoch + 1
    /\ now - lastTradeTime >= tradeCooldown
    /\ now - softwarePrices.lastUpdate > priceStaleMs
    /\ logged = {}

\* the per-instrument gates, stated on the snapshot of the book, the stored prices
\* and the liquidity report for tradeAmount
gatesPass(x, t) ==
    LET book == orderBooks[x]
        report == checkLiquidity(orderBooks, x, "BUY", tradeAmount)
    IN /\ book # NoBook
       /\ t - book.lastUpdate <= priceStaleMs
       /\ QGe(QSub(softwarePrices[x], polymarketPrices[x]), priceThreshold)
       /\ QGt(softwarePrices[x], QZero)
       /\ QGt(polymarketPrices[x], QZero)
       /\ QLe(book.spreadPercent, maxSpread)
       /\ report.sufficient
       /\ QLe(report.estimatedSlippage, maxSlippage)

\* C9: an opportunity is returned for an instrument only if its book is not stale,
\* the oracle price exceeds the market price by priceThreshold at least with both
\* positive, the spread is at most maxSpread, the liquidity for tradeAmount is
\* sufficient and its estimated slippage at most maxSlippage; when no instrument
\* passes all of them, no opportunity is returned.
C9_InstrumentGates ==
    [][(loop.pc = "balance" /\ loop'.pc # "balance") =>
          /\ loop'.pc = "buy" => gatesPass(loop'.opp.tokenType, now)
          /\ (\A x \in Tokens : ~gatesPass(x, now)) => loop'.pc = "idle"]_vars

\* an opportunity was returned for DOWN, UP having failed a gate
C9_Witness ==
    /\ loop.pc = "buy"
    /\ loop.opp.tokenType = "DOWN"
    /\ ~gatesPass("UP", now)
    /\ gatesPass("DOWN", now)

\* C10: for every opportunity returned, the liquidity for its recommendedSize is
\* sufficient and the estimated slippage of that size is at most maxSlippage.
C10_GatesForTradedSize ==
    [][(loop.pc = "balance" /\ loop'.pc = "buy") =>
          LET report == checkLiquidity(orderBooks, loop'.opp.tokenType, "BUY",
                                       loop'.opp.recommendedSize)
          IN report.sufficient /\ QLe(report.estimatedSlippage, maxSlippage)]_vars

\* C11: a tick returns at most one opportunity (it starts one executeTrade, for one
\* instrument), and the scan is UP before DOWN: when UP passes every gate the
\* opportunity is for UP, also when DOWN passes too; DOWN is returned only when UP
\* fails a gate.
C11_UpBeforeDown ==
    [][(loop.pc = "balance" /\ loop'.pc = "buy") =>
          /\ loop'.opp.tokenType \in Tokens
          /\ tradeCounter' = tradeCounter + 1
          /\ gatesPass("UP", now) => loop'.opp.tokenType = "UP"
          /\ loop'.opp.tokenType = "DOWN" => ~gatesPass("UP", now)
          /\ loop'.opp.softwarePrice = softwarePrices[loop'.opp.tokenType]
          /\ loop'.opp.polymarketPrice = polymarketPrices[loop'.opp.tokenType]]_vars

\* both instruments pass every gate and the opportunity returned is for UP
C11_Witness ==
    /\ loop.pc = "buy"
    /\ gatesPass("UP", now)
    /\ gatesPass("DOWN", now)
    /\ loop.opp.tokenType = "UP"

\* C12: when the balance call of a tick fails, the failure is logged, the tick
\* returns no opportunity and submits no order, the running flag is untouched and
\* the loop schedules its next tick one second later; more generally every tick
\* that ends at its balance call without an opportunity does so.
C12_BalanceFailure ==
    [][/\ BalanceFails => <<"Error in trading loop", 0>> \in logged'
       /\ (BalanceFails \/ (loop.pc = "balance" /\ loop'.pc \notin {"balance", "buy"}))
              => /\ loop'.pc = "idle"
                 /\ loop'.due = now + 1
                 /\ loop'.opp = NoOpp
                 /\ orders' = orders
                 /\ tradeCounter' = tradeCounter
                 /\ lastTradeTime' = lastTradeTime
                 /\ activeTrades' = activeTrades
                 /\ isRunning' = isRunning]_vars

\* after a failed balance call the loop ticked again and found an opportunity
C12_Witness ==
    /\ <<"Error in trading loop", 0>> \in logged
    /\ isRunning
    /\ loop.pc = "buy"
    /\ tradeCounter = 1

\* C13: the confidence of every opportunity returned lies in [0, 1].
C13_ConfidenceInUnitInterval ==
    [][(loop.pc = "balance" /\ loop'.pc = "buy") =>
          /\ QGe(loop'.opp.confidence, QZero)
          /\ QLe(loop'.opp.confidence, QOne)]_vars

\* is size the least of the four candidates
leastOf(size, a, b, c, d) ==
    /\ size \in {a, b, c, d}
    /\ QLe(size, a) /\ QLe(size, b) /\ QLe(size, c) /\ QLe(size, d)

\* C14: with dynamic sizing the recommendedSize of an opportunity is the least of
\* base * (0.5 + 1.5 * confidence), a third of the available liquidity, a tenth of
\* the balance and twice the base size; without it, it is the base size.
C14_DynamicSize ==
    [][\A usdc \in Balances :
          (BalanceReturns(usdc) /\ loop'.pc = "buy") =>
              LET opp == loop'.opp
                  liquidity == checkLiquidity(orderBooks, opp.tokenType, "BUY",
                                              tradeAmount).availableLiquidity
              IN IF enableDynamicSizing
                 THEN leastOf(opp.recommendedSize,
                              QMul(tradeAmount,
                                   QAdd(Q(1, 2), QMul(Q(3, 2), opp.confidence))),
                              QDiv(liquidity, QInt(3)),
                              QMul(usdc, Q(1, 10)),
                              QMul(QInt(2), tradeAmount))
                 ELSE opp.recommendedSize = tradeAmount]_vars

\* dynamic sizing is on and the cap of a third of the available liquidity binds
C14_Witness ==
    /\ loop.pc = "buy"
    /\ enableDynamicSizing
    /\ QLt(loop.opp.recommendedSize, tradeAmount)
    /\ loop.opp.recommendedSize =
           QDiv(checkLiquidity(orderBooks, loop.opp.tokenType, "BUY",
                               tradeAmount).availableLiquidity, QInt(3))

(***************************************************************************)
(* C15: for an opportunity at market price p and traded size s,            *)
(* executeTrade submits the entry buy at 1.01 * p for s / p shares, then   *)
(* the take-profit sell at min(p + takeProfitAmount, 0.99), then the       *)
(* stop-loss sell at max(p - stopLossAmount, 0.01), each for s / p shares; *)
(* the requests of one trade are accepted in the order entry, take-profit, *)
(* stop-loss; every recorded Trade has targetPrice <= 0.99 and             *)
(* stopPrice >= 0.01; and for oracle 0.75 and market 0.70 the edge is      *)
(* 0.05, the entry 0.707, the take-profit 0.71 and the stop-loss 0.695.    *)
(***************************************************************************)
rank(x) == CASE x = "buy" -> 1 [] x = "tp" -> 2 [] OTHER -> 3

\* the request r is for s / p shares of the token of the opportunity
sharesOf(r, opp) ==
    /\ r.tokenType = opp.tokenType
    /\ QMul(r.size, opp.polymarketPrice) = opp.recommendedSize

inActiveTrades(k) == \E i \in 1..Len(activeTrades) : activeTrades[i] = k

tradeAge(k) == now - trades[k].timestamp

notOld(k) == tradeAge(k) <= maxTradeAge

C16_SweepEvictsOld ==
    /\ [][CleanupSweep =>
             /\ activeTrades' = SelectSeq(activeTrades, notOld)
             /\ \A k \in 1..MaxTrades :
                   inActiveTrades(k)' <=> (inActiveTrades(k) /\ ~(tradeAge(k) > maxTradeAge))
             /\ \A k \in 1..MaxTrades : inActiveTrades(k)' => notOld(k)'
             /\ trades' = trades /\ orders' = orders /\ pnl' = pnl]_vars
    /\ \A k \in 1..MaxTrades :
          inActiveTrades(k) ~> (~inActiveTrades(k) \/ ~isRunning)

\* the sweep has evicted a closed trade and a trade still filled, and the bot runs
C16_Witness ==
    /\ isRunning
    /\ \E k \in 1..MaxTrades : trades[k].status = "closed" /\ ~inActiveTrades(k)
    /\ \E k \in 1..MaxTrades : trades[k].status = "filled" /\ ~inActiveTrades(k)

(***************************************************************************)
(* C17: when start() has completed successfully, a connection to each of   *)
(* the two feeds (oracle feed and market-data feed) has been attempted.    *)
(***************************************************************************)
C17_FeedsOpenedByStart ==
    startup.pc = "done" => \A f \in Feeds : feeds[f].attempts >= 1

(***************************************************************************)
(* C18: while the bot is running, a close of a streaming connection arms   *)
(* one reconnect timer for 5 seconds later, whatever the number of earlier *)
(* disconnects; a connection is opened only by that timer, at or after its *)
(* time, and the timer is used up by it; a closed connection of a running  *)
(* bot is eventually reopened unless the bot is stopped; and once stop()   *)
(* has been called no connection is opened, not even by a timer that was   *)
(* pending at stop().                                                      *)
(***************************************************************************)
C18_ReconnectWhileRunning ==
    /\ [][\A f \in Feeds :
             /\ (isRunning /\ isRunning' /\ feeds[f].state = "open"
                           /\ feeds'[f].state = "closed")
                   => /\ feeds'[f].retry = now + 5
                      /\ feeds'[f].attempts = feeds[f].attempts
             /\ (feeds'[f].attempts # feeds[f].attempts \/ feeds'[f].state = "open")
                   => \/ feeds'[f] = feeds[f]
                      \/ /\ isRunning
                         /\ feeds[f].state = "closed"
                         /\ feeds[f].retry # -1 /\ now >= feeds[f].retry
                         /\ feeds'[f].attempts = feeds[f].attempts + 1
                         /\ feeds'[f].state = "open"
                         /\ feeds'[f].retry = -1
             /\ (feeds'[f].retry # feeds[f].retry /\ feeds'[f].retry # -1)
                   => feeds[f].state = "open" /\ feeds[f].retry = -1
             /\ ~isRunning => /\ feeds'[f].attempts = feeds[f].attempts
                              /\ feeds'[f].state # "open"
                              /\ ~isRunning']_vars
    /\ \A f \in Feeds :
          (isRunning /\ feeds[f].state = "closed")
              ~> (feeds[f].state = "open" \/ ~isRunning)

\* a connection has been reopened twice, each time 5 s after its close
C18_Witness ==
    \E f \in Feeds : feeds[f].attempts = 3 /\ feeds[f].state = "open" /\ isRunning

(***************************************************************************)
(* C19: once stop() has been called, the trading loop submits no new entry *)
(* order, the order monitor starts no new pass and the cleanup sweep       *)
(* removes nothing, wherever stop() falls relative to a tick in flight.    *)
(***************************************************************************)
C19_NothingNewAfterStop ==
    [][~isRunning =>
          /\ loop'.pc = "buy" => loop.pc = "buy"
          /\ tradeCounter' = tradeCounter
          /\ \A p \in 1..MaxPasses : passes[p].pc = "off" => passes'[p].pc = "off"
          /\ activeTrades' = activeTrades \/ Len(activeTrades') > Len(activeTrades)]_vars

(***************************************************************************)
(* C20: an insufficient balance found by start() makes start() fail: no    *)
(* feed connection has been opened, no loop is started and the running     *)
(* flag stays false.  An insufficient balance found by the periodic check  *)
(* of the monitoring loop only logs a warning: the running flag, the loops *)
(* and the trading loop's schedule are untouched; and a tick whose balance *)
(* call returns less than minimumBalance returns no opportunity and is     *)
(* rescheduled.                                                            *)
(***************************************************************************)
C20_BalanceFatalOnlyAtStart ==
    [][/\ (startup.pc = "balances" /\ startup'.check = "insufficient")
             => /\ startup'.pc = "failed"
                /\ <<"Insufficient funds to start trading!", 0>> \in logged'
       /\ startup'.check = "insufficient"
             => /\ ~isRunning'
                /\ startup'.loops = {}
                /\ loop'.pc = "stopped"
                /\ \A f \in Feeds : feeds'[f].attempts = 0 /\ feeds'[f].state = "none"
       /\ (<<"Low balance!", 0>> \in logged' /\ <<"Low balance!", 0>> \notin logged)
             => /\ isRunning /\ isRunning'
                /\ startup' = startup /\ loop' = loop /\ feeds' = feeds
       /\ \A usdc \in Balances :
             (QLt(usdc, minimumBalance) /\ BalanceReturns(usdc))
                 => /\ loop'.opp = NoOpp
                    /\ loop'.pc = "idle" /\ loop'.due = now + 1
                    /\ tradeCounter' = tradeCounter /\ lastTradeTime' = lastTradeTime
                    /\ isRunning' = isRunning /\ startup' = startup]_vars

\* a first start() has failed on its balance check, a second one has succeeded,
\* and the running bot has since logged a low-balance warning
C20_Witness ==
    /\ <<"Insufficient funds to start trading!", 0>> \in logged
    /\ <<"Low balance!", 0>> \in logged
    /\ isRunning
    /\ startup.loops = AllLoops

(***************************************************************************)
(* C21: executeWithRetry invokes the thunk at most maxRetries + 1 times;   *)
(* after the failure of attempt k < maxRetries it sleeps                   *)
(* min(baseDelayMs * 2^k, maxDelayMs), whatever the kind of the error, and *)
(* invokes the thunk again no earlier than that; it returns the value of   *)
(* the first attempt that succeeds and then invokes nothing; after the     *)
(* failure of attempt maxRetries it throws the error of that attempt at    *)
(* once.  With maxRetries 4, base 1 and cap 16 (in units of 1000 ms) a     *)
(* thunk that fails 3 times succeeds at its 4th invocation after the       *)
(* delays 1, 2, 4.                                                         *)
(***************************************************************************)
minOf(a, b) == IF a <= b THEN a ELSE b

C21_RetryBackoff ==
    [][\A c \in 1..MaxCallers :
          LET r == limiter.callers[c]
              s == limiter'.callers[c]
              cfg == limiter.config
              d == minOf(cfg.baseDelayMs * (2 ^ r.attempt), cfg.maxDelayMs)
          IN /\ s.invoked <= cfg.maxRetries + 1
             /\ s.invoked = s.attempt + 1 \/ s.pc \in {"new", "slotSleep"}
             /\ (r.pc = "call" /\ s.pc = "backoff")
                   => /\ r.attempt < cfg.maxRetries
                      /\ s.delays = Append(r.delays, d)
                      /\ s.wake = now + d
                      /\ s.invoked = r.invoked
             /\ (r.pc = "backoff" /\ s.pc # "backoff")
                   => /\ now >= r.wake
                      /\ s.attempt = r.attempt + 1
             /\ (r.pc = "call" /\ s.pc = "returned")
                   => /\ s.outcome = <<"value", r.attempt>>
                      /\ Len(r.delays) = r.attempt
                      /\ s.invoked = r.invoked
             /\ (r.pc = "call" /\ r.attempt = cfg.maxRetries /\ s.pc # "call")
                   => \/ s.pc = "returned"
                      \/ /\ s.pc = "thrown"
                         /\ s.outcome \in {<<kind, cfg.maxRetries>> : kind \in ErrorKinds}
                         /\ s.outcome = s.lastError
                         /\ s.delays = r.delays
                         /\ s.invoked = cfg.maxRetries + 1
             /\ s.pc = "thrown" => r.pc = "thrown" \/ r.attempt = cfg.maxRetries
             /\ r.pc \in {"returned", "thrown"} => s = r
             /\ (cfg = [maxRetries |-> 4, baseDelayMs |-> 1, maxDelayMs |-> 16]
                   /\ s.pc = "returned" /\ s.invoked = 4)
                   => s.delays = <<1, 2, 4>>]_vars

\* with the default configuration a thunk has failed 3 times and succeeded at its
\* 4th invocation
C21_Witness ==
    \E c \in 1..MaxCallers :
        /\ limiter.config = [maxRetries |-> 4, baseDelayMs |-> 1, maxDelayMs |-> 16]
        /\ limiter.callers[c].pc = "returned"
        /\ limiter.callers[c].invoked = 4
        /\ limiter.callers[c].delays = <<1, 2, 4>>

(***************************************************************************)
(* C22: any two invocations of a thunk under the same operation key start  *)
(* at least minIntervalMs apart, also when two calls under that key are in *)
(* flight concurrently.  (lastCallTime[key] is written at each invocation, *)
(* so it holds the start of the previous invocation under the key.)        *)
(***************************************************************************)
C22_SameKeySpacing ==
    [][\A c \in 1..MaxCallers :
          limiter'.callers[c].invoked = limiter.callers[c].invoked + 1
              => LET key == limiter'.callers[c].key
                 IN \/ limiter.lastCallTime[key] = 0
                    \/ now - limiter.lastCallTime[key] >= minIntervalMs]_vars

(***************************************************************************)
(* C23: spacing is per key.  A step writes the last-call time of a key     *)
(* only if a thunk is invoked under that key in it; and a call that enters *)
(* waitForSlot under key k is invoked at once when minIntervalMs has       *)
(* elapsed since the last call under k, and sleeps until exactly           *)
(* minIntervalMs after it otherwise, whatever the last-call times of the   *)
(* other keys are.                                                         *)
(***************************************************************************)
C23_SpacingPerKey ==
    [][/\ \A j \in Keys :
             limiter'.lastCallTime[j] # limiter.lastCallTime[j]
                 => \E c \in 1..MaxCallers :
                       /\ limiter'.callers[c].key = j
                       /\ limiter'.callers[c].invoked = limiter.callers[c].invoked + 1
                       /\ limiter'.lastCallTime[j] = now
       /\ \A c \in 1..MaxCallers :
             LET r == limiter.callers[c]
                 s == limiter'.callers[c]
                 lastCall == limiter.lastCallTime[s.key]
             IN (r.pc \in {"new", "backoff"} /\ s.pc \notin {"new", "backoff"})
                   => IF now - lastCall >= minIntervalMs
                      THEN s.pc = "call" /\ s.invoked = r.invoked + 1
                      ELSE s.pc = "slotSleep" /\ s.wake = lastCall + minIntervalMs]_vars

\* two calls under different keys have been invoked in the same tick
C23_Witness ==
    /\ limiter.lastCallTime["get-orders"] = now
    /\ limiter.lastCallTime["balance-check"] = now
    /\ \A c \in 1..MaxCallers : limiter.callers[c].invoked = 1
    /\ limiter.callers[1].key # limiter.callers[2].key

\* C24: the oracle follows stopped -> running -> stopped.  Whenever the oracle is not
\* running (before start() and after stop(), also a stop() called while start() awaits
\* its initial fetch) no periodic fetch is scheduled, and at most one periodic
\* schedule exists at any time.
C24_StoppedMeansUnscheduled ==
    /\ ~oracle.isRunning => \A t \in 1..MaxTimers : oracle.timers[t] = 0
    /\ Cardinality({t \in 1..MaxTimers : oracle.timers[t] # 0}) <= 1

\* the step completes fetch cycle c: its last request settles
Completes(c) == oracle.cycles[c].pc = "busy" /\ oracle'.cycles[c].pc = "free"

\* the sources that returned a positive price in the cycle c that this step completes
succeededIn(c) ==
    {p[1] : p \in oracle.cycles[c].prices}
        \cup (oracle.cycles[c].pending \cap oracle'.activeSources)

\* history h2 is history h with one point appended, the oldest dropped at capacity
appendedOne(h, h2) ==
    /\ h2 # <<>>
    /\ Len(h2) \in {Len(h), Len(h) + 1}
    /\ SubSeq(h2, 1, Len(h2) - 1) = SubSeq(h, Len(h) - Len(h2) + 2, Len(h))

\* first half of C25: one point and a new current price iff a source succeeded
CycleAppendsIffSuccess(c) ==
    /\ succeededIn(c) # {} =>
          /\ appendedOne(oracle.priceHistory, oracle'.priceHistory)
          /\ oracle'.priceHistory[Len(oracle'.priceHistory)].timestamp
                = oracle.cycles[c].timestamp
          /\ oracle'.currentPrice
                = oracle'.priceHistory[Len(oracle'.priceHistory)].price
    /\ succeededIn(c) = {} =>
          /\ oracle'.priceHistory = oracle.priceHistory
          /\ oracle'.currentPrice = oracle.currentPrice

C25_AppendsIffSuccess ==
    [][\A c \in 1..MaxCycles : Completes(c) => CycleAppendsIffSuccess(c)]_vars

\* C25: a fetch cycle appends exactly one point and updates the current price if and
\* only if at least one source returned a positive price, leaves both unchanged when
\* every source failed, and after the cycle the active-source set holds exactly the
\* sources that succeeded in it.
C25_CycleToleratesFailures ==
    [][\A c \in 1..MaxCycles :
          Completes(c) =>
              /\ CycleAppendsIffSuccess(c)
              /\ oracle'.activeSources = succeededIn(c)]_vars

\* the <<source, price>> pairs of the cycle c that this step completes
pricesIn(c) ==
    oracle.cycles[c].prices
        \cup {<<x, quote(x)>> : x \in oracle.cycles[c].pending \cap oracle'.activeSources}

\* twice the median of a non-empty set of <<source, price>> pairs: the middle price
\* doubled, or the sum of the two middle prices
twiceMedian(prices) ==
    LET sorted == sortedPrices(prices)
    IN sorted[(Len(sorted) + 1) \div 2] + sorted[(Len(sorted) \div 2) + 1]

\* C26: the price appended by a fetch cycle is the median of the prices of the
\* sources that succeeded in it, for one, two or three successful sources; for
\* {100, 101, 1000000} it is 101.
C26_AppendsMedian ==
    [][\A c \in 1..MaxCycles :
          Completes(c) /\ pricesIn(c) # {} =>
              /\ oracle'.priceHistory # <<>>
              /\ 2 * oracle'.priceHistory[Len(oracle'.priceHistory)].price
                    = twiceMedian(pricesIn(c))]_vars

\* the last k elements of a sequence
lastOf(seq, k) == SubSeq(seq, Len(seq) - k + 1, Len(seq))

\* C27: the price history holds at most maxHistorySize points and is always the most
\* recent min(n, maxHistorySize) of the n points appended so far, in append order:
\* the points dropped at capacity are the oldest.
C27_HistoryBounded ==
    /\ Len(oracle.priceHistory) <= maxHistorySize
    /\ oracle.priceHistory
          = lastOf(oracle.appended, minOf(Len(oracle.appended), maxHistorySize))

\* a point has been dropped and the first point ever appended is no longer the first
C27_Witness ==
    /\ Len(oracle.appended) > maxHistorySize
    /\ Len(oracle.priceHistory) = maxHistorySize
    /\ oracle.priceHistory[1] # oracle.appended[1]

\* C28: the price history is time-ordered: the timestamps of its points are
\* non-decreasing from first to last in every reachable state, also when fetch cycles
\* overlap.
C28_HistoryTimeOrdered ==
    \A i \in 1..(Len(oracle.priceHistory) - 1) :
        oracle.priceHistory[i].timestamp <= oracle.priceHistory[i + 1].timestamp

\* the four conditions of health, on the state after the step
healthConditions ==
    /\ oracle.isRunning
    /\ oracle.activeSources # {}
    /\ Len(oracle.priceHistory) > minHealthyHistory
    /\ \E i \in 1..Len(oracle.priceHistory) :
          /\ i = Len(oracle.priceHistory)
          /\ now - oracle.priceHistory[i].timestamp < maxHealthyAge

\* the parts of C30 that do not depend on the last cycle
C30_HealthConditions ==
    /\ isHealthy <=> healthConditions
    /\ ~oracle.isRunning => ~isHealthy

\* C30: isHealthy() is true exactly when the oracle is running, at least one source
\* is active, the history has more than minHealthyHistory points and the most recent
\* point is younger than maxHealthyAge; it is false in every state reached after
\* stop() and in every state where the last fetch cycle had no successful source
\* (here: the cycle begun last is also the last to complete, and no source succeeded
\* in it).
C30_HealthyMeansLastCycleSucceeded ==
    [][/\ C30_HealthConditions'
       /\ \A c \in 1..MaxCycles :
             /\ Completes(c)
             /\ oracle.cycles[c].number = oracle.begun
             /\ succeededIn(c) = {}
             => ~isHealthy']_vars

\* C29: every snapshot returned by getOracleData() has probUp + probDown = 1 and
\* 0.05 <= probUp <= 0.95, for every momentum in [-1, 1] and volatility >= 0; with
\* fewer than 2 points in the history it is the default: probUp = probDown = 0.5
\* and confidence 0.
C29_SnapshotProbabilities ==
    \A i \in 1..Len(snapshot) :
        /\ QAdd(snapshot[i].probUp, snapshot[i].probDown) = QOne
        /\ QLe(Q(5, 100), snapshot[i].probUp)
        /\ QLe(snapshot[i].probUp, Q(95, 100))
        /\ Len(oracle.priceHistory) < 2 =>
              /\ snapshot[i].probUp = Q(1, 2)
              /\ snapshot[i].probDown = Q(1, 2)
              /\ snapshot[i].confidence = QZero

\* a snapshot computed from a history of two points at the upper extreme, where
\* the mean reversion applies
C29_Witness ==
    /\ Len(snapshot) = 1
    /\ Len(oracle.priceHistory) >= 2
    /\ snapshot[1].momentum = QOne
    /\ snapshot[1].probUp = Q(9, 10)
    /\ QGt(snapshot[1].confidence, QZero)

\* the best price of one side of a snapshot, 0 for an empty side
bestOf(levels) == IF levels = <<>> THEN QZero ELSE levels[1].price

\* the derived fields of the snapshot stored for x agree with its depths
snapshotDerived(x) ==
    LET book == orderBooks[x]
        bothSides == book.bids # <<>> /\ book.asks # <<>>
    IN /\ book.tokenId = x
       /\ bothSides =>
             QMul(book.midPrice, QInt(2)) = QAdd(bestOf(book.bids), bestOf(book.asks))
       /\ ~bothSides => book.midPrice = QZero
       /\ QAdd(book.spread, bestOf(book.bids)) = bestOf(book.asks)
       /\ book.midPrice # QZero =>
             QMul(book.spreadPercent, book.midPrice) = QMul(book.spread, QInt(100))
       /\ book.midPrice = QZero => book.spreadPercent = QZero

\* C31: updateOrderBook(id, bids, asks) replaces the snapshot of id wholesale and
\* leaves the snapshots of all other instruments unchanged; the stored midPrice is
\* (bestBid + bestAsk) / 2 when both sides are non-empty and 0 when either is empty,
\* spread is bestAsk - bestBid, spreadPercent is spread / mid * 100 (0 when mid is
\* 0); isStale(id) is true iff no snapshot exists for id or its age exceeds the
\* threshold.
C31_SnapshotReplaced ==
    /\ [](\A x \in Tokens :
             /\ orderBooks[x] # NoBook => snapshotDerived(x)
             /\ isStale(orderBooks, x, now)
                   <=> \/ orderBooks[x] = NoBook
                       \/ now - orderBooks[x].lastUpdate > priceStaleMs)
    /\ [][orderBooks' # orderBooks =>
             \E x \in Tokens :
                 /\ orderBooks'[x] # NoBook
                 /\ orderBooks'[x].lastUpdate = now
                 /\ \A y \in Tokens \ {x} : orderBooks'[y] = orderBooks[y]]_vars

\* UP holds a two-sided snapshot that has become stale, DOWN a one-sided one, stored
\* a tick later, that has not
C31_Witness ==
    /\ orderBooks["UP"] # NoBook
    /\ orderBooks["DOWN"] # NoBook
    /\ orderBooks["UP"].bids # <<>>
    /\ orderBooks["UP"].asks # <<>>
    /\ QGt(orderBooks["UP"].midPrice, QZero)
    /\ orderBooks["DOWN"].bids = <<>>
    /\ orderBooks["DOWN"].asks # <<>>
    /\ isStale(orderBooks, "UP", now)
    /\ ~isStale(orderBooks, "DOWN", now)

\* the levels a check of side `side` walks in the snapshot stored for x
sideOf(x, side) ==
    IF orderBooks[x] = NoBook THEN <<>>
    ELSE IF side = "BUY" THEN orderBooks[x].asks ELSE orderBooks[x].bids

\* the notional value (price times size) of the first k levels
RECURSIVE notionalOf(_, _)
notionalOf(levels, k) ==
    IF k = 0 THEN QZero
    ELSE QAdd(notionalOf(levels, k - 1), QMul(levels[k].price, levels[k].size))

hasWarning(r, w) == \E j \in 1..Len(r.warnings) : r.warnings[j] = w

\* C32: checkLiquidity reports sufficient = true iff the total notional of the levels
\* of the relevant side is at least notional * minLiquidityMultiplier and the
\* requested notional is fully covered by them; it reports false without a snapshot
\* or with an empty side.  It always returns: stale data, a wide spread, thin
\* liquidity and high slippage only add warnings, and when sufficient is false the
\* warnings are not empty.
C32_SufficientIff ==
    \A i \in 1..Len(lastCheck) :
        LET r == lastCheck[i]
            levels == sideOf(r.tokenId, r.side)
            total == notionalOf(levels, Len(levels))
        IN /\ r.check.sufficient
                <=> /\ levels # <<>>
                    /\ QGe(total, QMul(r.amount, minLiquidity))
                    /\ QGe(total, r.amount)
           /\ ~r.check.sufficient => r.warnings # <<>>
           /\ orderBooks[r.tokenId] # NoBook =>
                 /\ isStale(orderBooks, r.tokenId, now) <=> hasWarning(r, "stale")
                 /\ QGt(orderBooks[r.tokenId].spreadPercent, maxSpread)
                       <=> hasWarning(r, "high spread")
           /\ levels # <<>> =>
                 /\ QLt(total, QMul(r.amount, minLiquidity))
                       <=> hasWarning(r, "low liquidity")
                 /\ QLt(total, r.amount) <=> hasWarning(r, "cannot fill")

\* a check on a stale snapshot with a wide spread whose asks cover the notional but
\* not twice the notional: not sufficient, three warnings
C32_Witness ==
    /\ Len(lastCheck) = 1
    /\ lastCheck[1].side = "BUY"
    /\ lastCheck[1].amount = tradeAmount
    /\ ~lastCheck[1].check.sufficient
    /\ QGe(lastCheck[1].check.availableLiquidity, tradeAmount)
    /\ hasWarning(lastCheck[1], "stale")
    /\ hasWarning(lastCheck[1], "high spread")
    /\ hasWarning(lastCheck[1], "low liquidity")
    /\ ~hasWarning(lastCheck[1], "cannot fill")

\* the index of the last level that the walk for amount fills from: the last level
\* before which part of the amount is still unfilled
lastWalked(levels, amount) ==
    CHOOSE k \in 1..Len(levels) :
        /\ QLt(notionalOf(levels, k - 1), amount)
        /\ \A j \in (k + 1)..Len(levels) : ~QLt(notionalOf(levels, j - 1), amount)

\* a is between b and c, in either order
between(a, b, c) == QLe(QMin(b, c), a) /\ QLe(a, QMax(b, c))

\* C33: for a non-empty side and a positive notional the effectivePrice returned by
\* checkLiquidity is a well-defined number between the best level's price and the
\* price of the last level walked (strictly between them for asks
\* [(1.00, 10), (1.02, 10)] and notional 15), and estimatedSlippage is
\* |effectivePrice - bestPrice| / bestPrice >= 0, also when some or all levels have
\* size 0.
C33_EffectivePrice ==
    \A i \in 1..Len(lastCheck) :
        LET r == lastCheck[i]
            levels == sideOf(r.tokenId, r.side)
            best == levels[1].price
            last == levels[lastWalked(levels, r.amount)].price
        IN levels # <<>> /\ QGt(r.amount, QZero) =>
              /\ ~IsNaN(r.check.effectivePrice)
              /\ between(r.check.effectivePrice, best, last)
              /\ best # last /\ QGt(levels[1].size, QZero)
                   /\ QGt(levels[lastWalked(levels, r.amount)].size, QZero) =>
                     /\ r.check.effectivePrice # best
                     /\ r.check.effectivePrice # last
              /\ QMul(r.check.estimatedSlippage, best)
                    = QAbs(QSub(r.check.effectivePrice, best))
              /\ QGe(r.check.estimatedSlippage, QZero)

\* C34: for any sequence of recordTrade calls maxDrawdown never decreases from one
\* call to the next, and after every call maxDrawdown >= peakPnL - runningPnL >= 0.
C34_DrawdownMonotone ==
    [][/\ QGe(pnl'.maxDrawdown, pnl.maxDrawdown)
       /\ QGe(pnl'.maxDrawdown, QSub(pnl'.peakPnL, pnl'.runningPnL))
       /\ QGe(QSub(pnl'.peakPnL, pnl'.runningPnL), QZero)]_vars

\* after a gain, a larger loss and a small gain the maximum drawdown is above the
\* current drawdown, which is above 0
C34_Witness ==
    /\ Len(pnl.trades) = 3
    /\ QGt(pnl.maxDrawdown, QSub(pnl.peakPnL, pnl.runningPnL))
    /\ QGt(QSub(pnl.peakPnL, pnl.runningPnL), QZero)
    /\ QGt(pnl.trades[3].pnl, QZero)

\* the sum of the pnl of the first k results
RECURSIVE sumPnl(_, _)
sumPnl(results, k) ==
    IF k = 0 THEN QZero ELSE QAdd(sumPnl(results, k - 1), results[k].pnl)

\* the largest of 0 and the running sums after each of the first k results
RECURSIVE peakOf(_, _)
peakOf(results, k) ==
    IF k = 0 THEN QZero ELSE QMax(peakOf(results, k - 1), sumPnl(results, k))

\* C35: the ledger is append-only and consistent: every recordTrade call adds one
\* result (the count equals the number of calls), no recorded result is changed or
\* removed, runningPnL is the sum of the pnl of all recorded results and peakPnL is
\* the maximum of 0 and every value runningPnL has taken.
C35_LedgerConsistent ==
    [][/\ Len(pnl'.trades) = Len(pnl.trades) + 1
       /\ SubSeq(pnl'.trades, 1, Len(pnl.trades)) = pnl.trades
       /\ pnl'.runningPnL = sumPnl(pnl'.trades, Len(pnl'.trades))
       /\ pnl'.peakPnL = peakOf(pnl'.trades, Len(pnl'.trades))]_vars

\* four results recorded, the running P&L below a peak reached on the way
C35_Witness ==
    /\ Len(pnl.trades) = MaxLedger
    /\ QLt(pnl.runningPnL, pnl.peakPnL)
    /\ QLt(pnl.runningPnL, QZero)
    /\ QGt(pnl.peakPnL, QZero)

\* the slots of the trading loop that hold a timer or an invocation
aliveTicks == {i \in 1..MaxTicks : ticks.slots[i].pc # "free"}

\* C36: the trading loop is strictly sequential: the next evaluation tick is
\* scheduled only after the previous tick, including its executeTrade, has
\* completed, so at most one executeTrade is in flight at any time and two trades
\* are never opened concurrently.
C36_LoopSequential ==
    /\ Cardinality(aliveTicks) <= 1
    /\ Cardinality({i \in 1..MaxTicks : ticks.slots[i].pc = "trade"}) <= 1
    /\ \A i \in 1..MaxTicks :
          ticks.slots[i].pc = "timer" =>
              \A j \in 1..MaxTicks : ticks.slots[j].pc \notin {"check", "trade"}

\* a later invocation awaits its executeTrade after an earlier one has executed one
C36_Witness ==
    /\ ticks.executed = 2
    /\ ticks.begun >= 2
    /\ \E i \in 1..MaxTicks : ticks.slots[i].pc = "trade"

\* C37: every Trade in the active-trade set satisfies stopPrice < buyPrice <
\* targetPrice, so that a close with exitReason take_profit records a pnl > 0 and a
\* close with exitReason stop_loss records a pnl < 0, for every market price in
\* (0,1) at which an opportunity can be taken.
C37_ExitsBracketEntry ==
    \A i \in 1..Len(activeTrades) :
        LET trade == trades[activeTrades[i]]
        IN /\ QLt(trade.stopPrice, trade.buyPrice)
           /\ QLt(trade.buyPrice, trade.targetPrice)
           /\ QGt(tradeResult(trade, "take_profit").pnl, QZero)
           /\ QLt(tradeResult(trade, "stop_loss").pnl, QZero)

\* what a status held by a pass says about the order at the moment of its query:
\* UNKNOWN after a failed query, the truth after a successful one
truthful(status, orderId) ==
    \/ status = "UNKNOWN"
    \/ status = "OPEN" /\ orders[orderId] = "open"
    \/ status = "FILLED_OR_CANCELLED" /\ orders[orderId] # "open"

\* C38: a failed open-orders query never by itself causes an exit decision: the
\* order monitor cancels an exit order only after a successful query showed it open
\* and its sibling absent, and closes a trade only after a successful query showed
\* at least one of its exit orders absent from the open set; when every query of a
\* pass fails, the trade keeps status 'filled' and nothing is cancelled or recorded.
C38_FailedQueryNoExit ==
    [][/\ \A p \in 1..MaxPasses :
             passes[p].pc # "off" =>
                 LET k == passTrade(p)
                     pc == passes[p].pc
                     pc2 == passes'[p].pc
                 IN /\ (pc = "tpq" /\ pc2 = "slq")
                        => truthful(passes'[p].tpStatus, <<k, "tp">>)
                    /\ (pc = "slq" /\ pc2 \in {"slopen", "tpopen"})
                        => /\ truthful(passes'[p].slStatus, <<k, "sl">>)
                           /\ passes'[p].tpStatus = passes[p].tpStatus
                    /\ (pc = "slq" /\ pc2 = "slopen")
                        => passes[p].tpStatus = "FILLED_OR_CANCELLED"
                    /\ (pc = "slq" /\ pc2 = "tpopen")
                        => passes'[p].slStatus = "FILLED_OR_CANCELLED"
                    /\ (pc = "slq" /\ passes[p].tpStatus = "UNKNOWN"
                          /\ pc2 \notin {"slq", "tpopen"})
                        => /\ pc2 \in {"tpq", "off"}
                           /\ UNCHANGED <<trades, orders, pnl, closeCalls, logged>>
                    /\ (pc = "slopen" /\ pc2 = "slcancel")
                        => /\ orders[<<k, "sl">>] = "open"
                           /\ passes[p].tpStatus = "FILLED_OR_CANCELLED"
                    /\ (pc = "tpopen" /\ pc2 = "tpcancel")
                        => /\ orders[<<k, "tp">>] = "open"
                           /\ passes[p].slStatus = "FILLED_OR_CANCELLED"
                    /\ pc2 \in {"slcancel", "tpcancel"} => pc \in {"slopen", "tpopen", pc2}
       /\ \A k \in 1..MaxTrades :
             (trades'[k].status = "closed" /\ trades[k].status # "closed")
                 => \E p \in 1..MaxPasses :
                       /\ passes[p].pc \in {"slopen", "slcancel", "tpcancel"}
                       /\ passTrade(p) = k
                       /\ passes'[p].pc # passes[p].pc
                       /\ \/ passes[p].tpStatus = "FILLED_OR_CANCELLED"
                          \/ passes[p].slStatus = "FILLED_OR_CANCELLED"
       /\ (orders' # orders /\ passes' # passes)
             => \E p \in 1..MaxPasses : passes[p].pc \in {"slcancel", "tpcancel"}]_vars

\* the take-profit query of a pass has failed on an order that has left the open
\* set: the pass holds UNKNOWN and the trade is untouched
C38_Witness ==
    \E p \in 1..MaxPasses :
        /\ passes[p].pc = "slq"
        /\ passes[p].tpStatus = "UNKNOWN"
        /\ orders[<<passTrade(p), "tp">>] = "filled"
        /\ trades[passTrade(p)].status = "filled"
        /\ closeCalls[passTrade(p)] = 0

\* pass p issues a cancel request for an exit order of trade k in this step
issuesCancel(p, k) ==
    /\ passes[p].pc \in {"slopen", "tpopen"}
    /\ passes'[p].pc \in {"slcancel", "tpcancel"}
    /\ passTrade(p) = k

\* pass p has a cancel request for an exit order of trade k in flight
cancelInFlight(p, k) ==
    /\ passes[p].pc \in {"slcancel", "tpcancel"}
    /\ passTrade(p) = k

\* C39: for each trade the order monitor issues at most one cancel request for the
\* sibling exit order, and none for a trade that is already closed, also when
\* monitor passes overlap.
C39_OneCancelPerTrade ==
    [][\A p \in 1..MaxPasses, k \in 1..MaxTrades :
          issuesCancel(p, k)
              => /\ trades[k].status # "closed"
                 /\ \A q \in 1..MaxPasses : q # p => ~cancelInFlight(q, k)]_vars

\* C40: after OracleServer.stop() has been called, the client set is empty, no
\* broadcast timer is active, the WebSocket server is closed and the underlying
\* oracle is stopped, and they stay so, also when stop() is called while start() is
\* still waiting for the initial price data.
C40_StoppedStaysStopped ==
    server.stopped =>
        /\ server.clients = {}
        /\ server.broadcastInterval = 0
        /\ server.wss # "listening"
        /\ ~oracle.isRunning

====
